---- MODULE Spec2Model ----
(***************************************************************************)
(* Real-time event delivery of the lapis-chat backend: the Redis-backed    *)
(* cache layer (backend/core/cache.py), the event bus                      *)
(* (backend/core/events.py), the connection registry                       *)
(* (backend/core/connections.py) and the per-connection session            *)
(* (backend/core/websocket.py).                                            *)
(*                                                                         *)
(* Strings that the code formats or parses (cache keys, channel names,     *)
(* event names) are sequences of one-character strings, so that            *)
(* formatting, split, lstrip and upper are computed as the code computes   *)
(* them.  Every `await` of the code is a separate step of the process      *)
(* that executes it; the code between two awaits runs atomically, as in a  *)
(* single asyncio event loop.                                              *)
(***************************************************************************)
EXTENDS Integers, Sequences, FiniteSets, TLC

VARIABLES
    kv,           \* Redis keyspace: key -> [val, exp] (exp = deadline, or NoExpiry)
    now,          \* Redis clock, in seconds
    existLog,     \* history: user id -> last effective existence write [val, at]
    lastCall,     \* history: the last call of the cache layer, and what it found
    friends,      \* friends collection: <<first_user, second_user>>, oldest first
    connections,  \* ConnectionManager._connections: session id -> connection
    nextSid,      \* number of session ids minted so far (uuid4 never repeats)
    user,         \* WSClient.user (the user id), per connection
    pc,           \* position of WSClient.start, per connection
    sessionId,    \* WSClient._session_id
    connected,    \* WSClient._connected
    ready,        \* WSClient._ready (asyncio.Event)
    listener,     \* WSClient._pubsub_listener_task
    wsOpen,       \* whether the client side of the websocket is still there
    local,        \* local variables of the close()/register call of the main task
    worker,       \* _subscribe_event_channels_worker task: [pc, friends, todo]
    subs,         \* channels the connection's pubsub is subscribed to
    psConn,       \* whether the pubsub holds a connection to Redis
    inbox,        \* messages published to the pubsub and not yet read
    published,    \* history: every message published, in order
    sent,         \* packets sent to the client, in order
    task,         \* request handlers running outside the connections
    ops,          \* number of request handlers started so far
    db,           \* users collection: user id -> users.AuthorizedUser
    auth,         \* fetch_user_authorized of websocket_route, per connection
    requests,     \* friend_requests collection: the set of <<requester_id, recipient_id>>
    handler       \* request handlers that run beside the task: [op, pc, a, b, ...]

vars == <<kv, now, existLog, lastCall, friends, connections, nextSid, user, pc, sessionId,
          connected, ready, listener, wsOpen, local, worker, subs, psConn,
          inbox, published, sent, task, ops, db, auth, requests, handler>>

cacheVars == <<kv, now, existLog, lastCall>>
connVars == <<friends, connections, nextSid, user, pc, sessionId, connected, ready,
              listener, wsOpen, local, worker, subs, psConn, inbox, published, sent, task, ops,
              db, auth, requests, handler>>

-----------------------------------------------------------------------------
(* Strings *)

\* None is the empty tuple; a value that may be None is a tuple
None == <<>>
Some(x) == <<x>>

LowerChars == <<"a","b","c","d","e","f","g","h","i","j","k","l","m",
                "n","o","p","q","r","s","t","u","v","w","x","y","z">>
UpperChars == <<"A","B","C","D","E","F","G","H","I","J","K","L","M",
                "N","O","P","Q","R","S","T","U","V","W","X","Y","Z">>

\* str.upper() on one character
UpperChar(ch) ==
    IF \E i \in 1..Len(LowerChars) : LowerChars[i] = ch
    THEN UpperChars[CHOOSE i \in 1..Len(LowerChars) : LowerChars[i] = ch]
    ELSE ch

\* str.upper()
Upper(s) == [i \in 1..Len(s) |-> UpperChar(s[i])]

\* the characters of a string, as a set
Chars(s) == {s[i] : i \in 1..Len(s)}

\* str.lstrip(chars): drops leading characters that are in the set chars
RECURSIVE LStrip(_, _)
LStrip(s, chars) ==
    IF s # <<>> /\ Head(s) \in Chars(chars) THEN LStrip(Tail(s), chars) ELSE s

\* str.split(sep)[0]: the part before the first separator
RECURSIVE SplitFirst(_, _)
SplitFirst(s, sep) ==
    IF s = <<>> \/ Head(s) = sep THEN <<>>
    ELSE <<Head(s)>> \o SplitFirst(Tail(s), sep)

\* str.startswith(prefix)
StartsWith(s, prefix) ==
    /\ Len(s) >= Len(prefix)
    /\ SubSeq(s, 1, Len(prefix)) = prefix

\* sep.join(values)
RECURSIVE Join(_, _)
Join(values, sep) ==
    IF values = <<>> THEN <<>>
    ELSE IF Len(values) = 1 THEN values[1]
    ELSE values[1] \o <<sep>> \o Join(Tail(values), sep)

\* json.dumps / json.loads: the encoded text is not the value itself
JsonDumps(x) == <<"json", x>>
JsonLoads(s) == s[2]

\* elements of a sequence
Range(s) == {s[i] : i \in 1..Len(s)}

\* list.remove(x): removes the first occurrence
RECURSIVE ListRemove(_, _)
ListRemove(s, x) ==
    IF s = <<>> THEN <<>>
    ELSE IF Head(s) = x THEN Tail(s)
    ELSE <<Head(s)>> \o ListRemove(Tail(s), x)

-----------------------------------------------------------------------------
(* Users *)

U1 == <<"a", "1">>
U2 == <<"b", "2">>
U3 == <<"e", "3">>
Users == {U1, U2, U3}

TokOf(u) == <<"t">> \o u
NameOf(u) == <<"n">> \o u
PwdOf(u) == <<"p">> \o u

\* users.AuthorizedUser
AuthorizedUser(u, name) ==
    [id |-> u, username |-> name, password |-> PwdOf(u), token |-> TokOf(u)]

AltName(u) == <<"m">> \o u
AuthorizedUsers ==
    {AuthorizedUser(U1, NameOf(U1)), AuthorizedUser(U1, AltName(U1)),
     AuthorizedUser(U2, NameOf(U2)), AuthorizedUser(U2, AltName(U2))}

\* BaseDatabaseModel.model_dump_database: serialized by alias (id -> _id)
ModelDumpDatabase(usr) ==
    [_id |-> usr.id, username |-> usr.username, password |-> usr.password,
     token |-> usr.token]

\* users.AuthorizedUser(**data)
AuthorizedUserFromData(d) ==
    [id |-> d._id, username |-> d.username, password |-> d.password, token |-> d.token]

\* BaseDatabaseModel.model_dump_api: every field, not by alias
ModelDumpApi(usr) ==
    [id |-> usr.id, username |-> usr.username, password |-> usr.password,
     token |-> usr.token]

-----------------------------------------------------------------------------
(* Redis keyspace *)

NoExpiry == 0 - 1
UserTTL == 300
MaxTicks == 2
TickSteps == {1, UserTTL - 1}

\* the instants the clock can show after at most n ticks
RECURSIVE TimePoints(_)
TimePoints(n) ==
    IF n = 0 THEN {0}
    ELSE LET S == TimePoints(n - 1) IN S \cup {s + d : s \in S, d \in TickSteps}

Live(store, t, k) ==
    /\ k \in DOMAIN store
    /\ (store[k].exp = NoExpiry \/ t < store[k].exp)

\* GET key
KvGet(store, t, k) == IF Live(store, t, k) THEN store[k].val ELSE None

KvPut(store, k, e) ==
    [x \in DOMAIN store \cup {k} |-> IF x = k THEN e ELSE store[x]]

\* SET key value [EX seconds] [XX]
KvSetIgnoringXX(store, t, k, v, ex, xx) ==
    KvPut(store, k, [val |-> v, exp |-> IF ex = NoExpiry THEN NoExpiry ELSE t + ex])

KvSet(store, t, k, v, ex, xx) ==
    IF xx /\ ~Live(store, t, k) THEN store
    ELSE KvPut(store, k, [val |-> v, exp |-> IF ex = NoExpiry THEN NoExpiry ELSE t + ex])

\* DEL key
KvDel(store, k) == [x \in DOMAIN store \ {k} |-> store[x]]

\* keys whose deadline has passed are gone
KvExpire(store, t) ==
    [x \in {k \in DOMAIN store : Live(store, t, k)} |-> store[x]]

-----------------------------------------------------------------------------
(* CacheManager *)

S_user_token == <<"u","s","e","r","_","t","o","k","e","n">>
S_user_id_integ == <<"u","s","e","r","_","i","d","_","i","n","t","e","g">>
S_user_sessions == <<"u","s","e","r","_","s","e","s","s","i","o","n","s">>

CacheApplyScheme(scheme, value) == scheme \o <<":">> \o value

SchemeUserToken(token) == CacheApplyScheme(S_user_token, token)
SchemeUserIdInteg(uid) == CacheApplyScheme(S_user_id_integ, uid)
SchemeUserSessions(uid) == CacheApplyScheme(S_user_sessions, uid)

GetUserByToken(store, t, token) ==
    LET data == KvGet(store, t, SchemeUserToken(token))
    IN  IF data # None THEN Some(AuthorizedUserFromData(JsonLoads(data))) ELSE None

SetUserByTokenKv(store, t, usr, update) ==
    KvSet(store, t, SchemeUserToken(usr.token),
          JsonDumps(ModelDumpDatabase(usr)), UserTTL, update)

DeleteUserByTokenKv(store, token) == KvDel(store, SchemeUserToken(token))

\* int(exists) as Redis stores it, and bool(int(...)) of what Redis returns
IntOfBool(b) == IF b THEN <<"1">> ELSE <<"0">>
BoolOfText(s) == s # <<>>
BoolOfInt(s) == s # <<"0">>

CheckUserIdExists(store, t, uid) ==
    LET exists == KvGet(store, t, SchemeUserIdInteg(uid))
    IN  IF exists = None THEN "None" ELSE IF BoolOfInt(exists) THEN "True" ELSE "False"

SetUserIdExistsKv(store, t, uid, exists, update) ==
    KvSet(store, t, SchemeUserIdInteg(uid), IntOfBool(exists), UserTTL, update)

GetUserSessions(store, t, uid) ==
    LET data == KvGet(store, t, SchemeUserSessions(uid))
    IN  IF data = None THEN <<>> ELSE JsonLoads(data)

\* the write of insert_user_session_id, given the list it read
InsertUserSessionIdWrite(store, t, uid, session_ids, sid) ==
    KvSet(store, t, SchemeUserSessions(uid), JsonDumps(Append(session_ids, sid)),
          NoExpiry, FALSE)

\* the write of delete_user_session_id, given the list it read
DeleteUserSessionIdUnsaved(store, t, uid, session_ids, sid) == store
DeleteUserSessionIdWrite(store, t, uid, session_ids, sid) ==
    IF sid \in Range(session_ids)
    THEN KvSet(store, t, SchemeUserSessions(uid),
               JsonDumps(ListRemove(session_ids, sid)), NoExpiry, FALSE)
    ELSE store

ClearUserSessionIdsKv(store, uid) == KvDel(store, SchemeUserSessions(uid))

\* cache operations as actions (the cache layer on its own)

\* history record of a call: its name, its argument, its flag, and whether
\* the key it addresses held a value when it was made
Call(op, arg, update, found) ==
    [op |-> op, arg |-> arg, update |-> update, found |-> found]
NoCall == Call("none", None, FALSE, FALSE)

SetUserByToken(usr, update) ==
    /\ kv' = SetUserByTokenKv(kv, now, usr, update)
    /\ lastCall' = Call("set_user_by_token", usr, update,
                        GetUserByToken(kv, now, usr.token) # None)
    /\ UNCHANGED <<now, existLog>>

DeleteUserByToken(token) ==
    /\ kv' = DeleteUserByTokenKv(kv, token)
    /\ lastCall' = Call("delete_user_by_token", token, FALSE,
                        GetUserByToken(kv, now, token) # None)
    /\ UNCHANGED <<now, existLog>>

SetUserIdExists(uid, exists, update) ==
    /\ kv' = SetUserIdExistsKv(kv, now, uid, exists, update)
    /\ lastCall' = Call("set_user_id_exists", <<uid, exists>>, update,
                        CheckUserIdExists(kv, now, uid) # "None")
    /\ existLog' = IF update /\ CheckUserIdExists(kv, now, uid) = "None"
                   THEN existLog
                   ELSE [existLog EXCEPT ![uid] = Some([val |-> exists, at |-> now])]
    /\ UNCHANGED now

\* time passes; Redis drops the keys whose TTL has run out
Tick(d) ==
    /\ now + d \in TimePoints(MaxTicks)
    /\ now' = now + d
    /\ kv' = KvExpire(kv, now + d)
    /\ lastCall' = NoCall
    /\ UNCHANGED existLog

EmptyKv == [x \in {} |-> None]

InitCache ==
    /\ kv = EmptyKv
    /\ now = 0
    /\ existLog = [u \in Users |-> None]
    /\ lastCall = NoCall

CacheUsers == {U1, U2}

NextCache ==
    \/ \E usr \in AuthorizedUsers, update \in BOOLEAN :
          SetUserByToken(usr, update) /\ UNCHANGED connVars
    \/ \E usr \in AuthorizedUsers :
          DeleteUserByToken(usr.token) /\ UNCHANGED connVars
    \/ \E uid \in CacheUsers, exists \in BOOLEAN, update \in BOOLEAN :
          SetUserIdExists(uid, exists, update) /\ UNCHANGED connVars
    \/ \E d \in TickSteps :
          Tick(d) /\ UNCHANGED connVars

-----------------------------------------------------------------------------
(* EventHandler: channel names and publishing *)

S_event_ == <<"e","v","e","n","t","_">>
S_user_update == <<"u","s","e","r","_","u","p","d","a","t","e">>
S_user_delete == <<"u","s","e","r","_","d","e","l","e","t","e">>
S_friend_create == <<"f","r","i","e","n","d","_","c","r","e","a","t","e">>
S_friend_delete == <<"f","r","i","e","n","d","_","d","e","l","e","t","e">>
S_friend_request_receive ==
    <<"f","r","i","e","n","d","_","r","e","q","u","e","s","t","_",
      "r","e","c","e","i","v","e">>
S_message_create == <<"m","e","s","s","a","g","e","_","c","r","e","a","t","e">>
S_message_update == <<"m","e","s","s","a","g","e","_","u","p","d","a","t","e">>
S_message_delete == <<"m","e","s","s","a","g","e","_","d","e","l","e","t","e">>

\* f"event_{scheme}:{','.join(values)}"
EventApplyScheme(scheme, values) ==
    S_event_ \o scheme \o <<":">> \o Join(values, ",")

ChannelUserUpdate(uid) == EventApplyScheme(S_user_update, <<uid>>)
ChannelUserDelete(uid) == EventApplyScheme(S_user_delete, <<uid>>)
ChannelFriendDelete(uid) == EventApplyScheme(S_friend_delete, <<uid>>)
ChannelFriendCreate(uid) == EventApplyScheme(S_friend_create, <<uid>>)
ChannelFriendRequestReceive(uid) == EventApplyScheme(S_friend_request_receive, <<uid>>)

\* MessageDestinationType.DIRECT, and its text in a channel name
DIRECT == 0
DestTypeStr(dest_type) == IF dest_type = DIRECT THEN <<"0">> ELSE <<"1">>

ChannelMessageCreate(dest_type, dest_id) ==
    EventApplyScheme(S_message_create, <<DestTypeStr(dest_type), dest_id>>)
ChannelMessageUpdate(dest_type, dest_id) ==
    EventApplyScheme(S_message_update, <<DestTypeStr(dest_type), dest_id>>)
ChannelMessageDelete(dest_type, dest_id) ==
    EventApplyScheme(S_message_delete, <<DestTypeStr(dest_type), dest_id>>)

\* a message as the pubsub hands it to a handler
Message(channel, data) == [channel |-> channel, data |-> data]

\* _dispatch: PUBLISH reaches every pubsub subscribed to the channel
DeliverToAll(boxes, channel, message) ==
    [c \in DOMAIN boxes |->
        IF psConn[c] THEN Append(boxes[c], Message(channel, message)) ELSE boxes[c]]
Deliver(boxes, channel, message) ==
    [c \in DOMAIN boxes |->
        IF psConn[c] /\ channel \in subs[c]
        THEN Append(boxes[c], Message(channel, message))
        ELSE boxes[c]]

\* the payloads of the dispatch helpers
UserIdPayload(uid) == JsonDumps([user_id |-> uid])
UserPayload(usr) == JsonDumps(ModelDumpApi(usr))

-----------------------------------------------------------------------------
(* Packets *)

HELLO == 0
READY == 1
EVENT == 2

\* OperationCode.ws_packet: d and t are left out when MISSING (the empty tuple here)
WsPacketWithoutT(code, d, t) == [op |-> code, d |-> d, t |-> None]
WsPacket(code, d, t) == [op |-> code, d |-> d, t |-> t]

HelloPacket == WsPacket(HELLO, None, None)
ReadyPacket(usr, sid) ==
    WsPacket(READY, Some([user |-> ModelDumpApi(usr), session_id |-> sid]), None)

\* _event_handler: the event name is derived from the channel name
EventNameNotUpper(channel) == LStrip(SplitFirst(channel, ":"), S_event_)
EventName(channel) == Upper(LStrip(SplitFirst(channel, ":"), S_event_))
EventPacket(msg) == WsPacket(EVENT, Some(JsonLoads(msg.data)), Some(EventName(msg.channel)))

-----------------------------------------------------------------------------
(* Friends as the store returns them *)

\* Friend.friend_id: the other endpoint of the edge, seen from the operating user
FriendId(edge, operating_user_id) ==
    IF operating_user_id = edge[1] THEN edge[2] ELSE edge[1]

\* fetch_all_friends: the edges that have the user at either end, oldest first
RECURSIVE FetchAllFriends(_, _)
FetchAllFriends(edges, uid) ==
    IF edges = <<>> THEN <<>>
    ELSE IF Head(edges)[1] = uid \/ Head(edges)[2] = uid
         THEN <<FriendId(Head(edges), uid)>> \o FetchAllFriends(Tail(edges), uid)
         ELSE FetchAllFriends(Tail(edges), uid)

-----------------------------------------------------------------------------
(* Connections *)

Conns == {"c1", "c2"}
Tasks == {"t1"}
NoSession == 0
MaxOps == 2

\* the users a connection may authenticate as, and the handlers' arguments
ConnUsers(c) == IF c = "c1" THEN {U1} ELSE {U1, U2, U3}
FriendPairs == {<<U1, U2>>, <<U2, U1>>, <<U1, U1>>}
DeletedUsers == {U1, U2}
UpdatedUsers == {U1, U2}
DisconnectedUsers == {U1}

UserRecord(u) == AuthorizedUser(u, NameOf(u))
UserOf(c) == user[c][1]
UidOf(c) == user[c][1].id

IdleWorker == [pc |-> "none", friends |-> <<>>, todo |-> <<>>]
IdleLocal == [sid |-> NoSession, session_ids |-> <<>>]
IdleAuth == [pc |-> "idle", token |-> <<>>, user |-> None, cache |-> TRUE, io |-> <<>>]
IdleTask == [op |-> "idle", pc |-> "idle", a |-> <<>>, b |-> <<>>, listed |-> <<>>,
             todo |-> <<>>, closing |-> "none", session_ids |-> <<>>]

\* the handlers of requests that run beside the task
Handlers == {"h1", "h2"}
IdleHandler == [op |-> "idle", pc |-> "idle", a |-> <<>>, b |-> <<>>,
                cached |-> "None", found |-> FALSE, out |-> "none"]

InitConn ==
    /\ requests = {}
    /\ handler = [h \in Handlers |-> IdleHandler]
    /\ db = [u \in Users |-> UserRecord(u)]
    /\ auth = [c \in Conns |-> IdleAuth]
    /\ friends = <<>>
    /\ connections = [x \in {} |-> "none"]
    /\ nextSid = 0
    /\ user = [c \in Conns |-> None]
    /\ pc = [c \in Conns |-> "idle"]
    /\ sessionId = [c \in Conns |-> NoSession]
    /\ connected = [c \in Conns |-> FALSE]
    /\ ready = [c \in Conns |-> FALSE]
    /\ listener = [c \in Conns |-> "none"]
    /\ wsOpen = [c \in Conns |-> TRUE]
    /\ local = [c \in Conns |-> IdleLocal]
    /\ worker = [c \in Conns |-> IdleWorker]
    /\ subs = [c \in Conns |-> {}]
    /\ psConn = [c \in Conns |-> FALSE]
    /\ inbox = [c \in Conns |-> <<>>]
    /\ published = <<>>
    /\ sent = [c \in Conns |-> <<>>]
    /\ task = [t \in Tasks |-> IdleTask]
    /\ ops = 0

Init == InitCache /\ InitConn

\* dict insertion and dict.pop(key, None)
MapPut(m, k, v) == [x \in DOMAIN m \cup {k} |-> IF x = k THEN v ELSE m[x]]
MapPop(m, k) == [x \in DOMAIN m \ {k} |-> m[x]]

\* WSClient.send: the packet reaches the client if it is still there
SendTo(c, packet) ==
    sent' = [sent EXCEPT ![c] = IF wsOpen[c] THEN Append(@, packet) ELSE @]

(* -- ConnectionManager.register_connection, from WSClient.start -- *)

\* str(uuid.uuid4()): an id that was never minted before
MintSessionIdAgain(n) == 1
MintSessionIdStale(n) == IF n = 0 THEN 1 ELSE n
MintSessionId(n) == n + 1

\* a session id is minted and insert_user_session_id reads the cached list
RegisterRead(c, u) ==
    /\ pc[c] = "idle"
    /\ nextSid' = nextSid + 1
    /\ user' = [user EXCEPT ![c] = Some(UserRecord(u))]
    /\ local' = [local EXCEPT ![c] =
                    [sid |-> MintSessionId(nextSid),
                     session_ids |-> GetUserSessions(kv, now, u)]]
    /\ pc' = [pc EXCEPT ![c] = "reg_write"]
    /\ UNCHANGED <<requests, handler, cacheVars, db, auth, friends, connections, sessionId, connected, ready,
                   listener, wsOpen, worker, subs, psConn, inbox, published, sent, task, ops>>

\* insert_user_session_id writes the list it read, with the new id appended
RegisterWrite(c) ==
    /\ pc[c] = "reg_write"
    /\ kv' = InsertUserSessionIdWrite(kv, now, UidOf(c), local[c].session_ids,
                                      local[c].sid)
    /\ pc' = [pc EXCEPT ![c] = "reg_done"]
    /\ UNCHANGED <<requests, handler, now, existLog, lastCall, db, auth, friends, connections, nextSid, user, sessionId,
                   connected, ready, listener, wsOpen, local, worker, subs, psConn,
                   inbox, published, sent, task, ops>>

\* the map entry, WSClient._register and the subscription task; then accept()
RegisterDone(c) ==
    /\ pc[c] = "reg_done"
    /\ connections' = MapPut(connections, local[c].sid, c)
    /\ sessionId' = [sessionId EXCEPT ![c] = local[c].sid]
    /\ connected' = [connected EXCEPT ![c] = TRUE]
    /\ worker' = [worker EXCEPT ![c] = [pc |-> "fetch", friends |-> <<>>, todo |-> <<>>]]
    /\ \/ pc' = [pc EXCEPT ![c] = "hello"]
       \/ ~wsOpen[c] /\ pc' = [pc EXCEPT ![c] = "crashed"]
    /\ UNCHANGED <<requests, handler, cacheVars, db, auth, friends, nextSid, user, ready, listener, wsOpen, local,
                   subs, psConn, inbox, published, sent, task, ops>>

\* register_connection run without another task in between: the cached list
\* and the session map it leaves
RegisterConnection(store, conns, t, c, uid, sid) ==
    [kv |-> InsertUserSessionIdWrite(store, t, uid, GetUserSessions(store, t, uid), sid),
     connections |-> MapPut(conns, sid, c)]

\* delete_connection run without another task in between; removed is what
\* delete_user_session_id returns
DeleteConnection(store, conns, t, uid, sid) ==
    [kv |-> DeleteUserSessionIdWrite(store, t, uid, GetUserSessions(store, t, uid), sid),
     connections |-> MapPop(conns, sid),
     removed |-> sid \in Range(GetUserSessions(store, t, uid))]

(* -- WSClient._send_initial_packets and the rest of WSClient.start -- *)

SendHello(c) ==
    /\ pc[c] = "hello"
    /\ SendTo(c, HelloPacket)
    /\ \/ pc' = [pc EXCEPT ![c] = "wait_ready"]
       \/ ~wsOpen[c] /\ pc' = [pc EXCEPT ![c] = "crashed"]
    /\ UNCHANGED <<requests, handler, cacheVars, db, auth, friends, connections, nextSid, user, sessionId,
                   connected, ready, listener, wsOpen, local, worker, subs, psConn,
                   inbox, published, task, ops>>

\* await self._ready.wait()
ReadyGateOpen(c) == TRUE
ReadyGate(c) == ready[c]

\* READY once the readiness event is set; then the listener task and the read loop
SendReady(c) ==
    /\ pc[c] = "wait_ready"
    /\ ReadyGate(c)
    /\ SendTo(c, ReadyPacket(UserOf(c), sessionId[c]))
    /\ \/ /\ pc' = [pc EXCEPT ![c] = IF connected[c] THEN "recv" ELSE "done"]
          /\ listener' = [listener EXCEPT ![c] =
                             IF connected[c] THEN "running" ELSE "exited"]
       \/ /\ ~wsOpen[c]
          /\ pc' = [pc EXCEPT ![c] = "crashed"]
          /\ UNCHANGED listener
    /\ UNCHANGED <<requests, handler, cacheVars, db, auth, friends, connections, nextSid, user, sessionId,
                   connected, ready, wsOpen, local, worker, subs, psConn,
                   inbox, published, task, ops>>

\* the client goes away
ClientDisconnect(c) ==
    /\ pc[c] \in {"reg_write", "reg_done", "hello", "wait_ready", "recv"}
    /\ wsOpen[c]
    /\ wsOpen' = [wsOpen EXCEPT ![c] = FALSE]
    /\ UNCHANGED <<requests, handler, cacheVars, db, auth, friends, connections, nextSid, user, pc, sessionId,
                   connected, ready, listener, local, worker, subs, psConn,
                   inbox, published, sent, task, ops>>

\* receive_text returns a frame and the loop finds _connected false
ClientFrame(c) ==
    /\ pc[c] = "recv"
    /\ wsOpen[c]
    /\ ~connected[c]
    /\ pc' = [pc EXCEPT ![c] = "done"]
    /\ UNCHANGED <<requests, handler, cacheVars, db, auth, friends, connections, nextSid, user, sessionId,
                   connected, ready, listener, wsOpen, local, worker, subs, psConn,
                   inbox, published, sent, task, ops>>

(* -- WSClient.close: the steps, whoever runs them -- *)

\* the listener task is cancelled if it exists; delete_user_session_id reads the list
CloseCancel(c) ==
    listener' = [listener EXCEPT ![c] = IF @ = "running" THEN "cancelled" ELSE @]

\* delete_user_session_id writes the list without the id (only if it was there)
CloseWriteKv(c, session_ids) ==
    kv' = DeleteUserSessionIdWrite(kv, now, UidOf(c), session_ids, sessionId[c])

\* delete_connection pops the map entry; then pubsub.unsubscribe()
ClosePopUnsubscribe(c) ==
    /\ connections' = MapPop(connections, sessionId[c])
    /\ subs' = [subs EXCEPT ![c] = {}]
    /\ psConn' = [psConn EXCEPT ![c] = TRUE]

\* pubsub.aclose(): the connection is dropped with what it had buffered
CloseRelease(c) ==
    /\ psConn' = [psConn EXCEPT ![c] = FALSE]
    /\ subs' = [subs EXCEPT ![c] = {}]
    /\ inbox' = [inbox EXCEPT ![c] = <<>>]

(* -- close() run by the connection's own task, after WebSocketDisconnect -- *)

CloseBegin(c) ==
    /\ pc[c] = "recv"
    /\ ~wsOpen[c]
    /\ CloseCancel(c)
    /\ local' = [local EXCEPT ![c].session_ids = GetUserSessions(kv, now, UidOf(c))]
    /\ pc' = [pc EXCEPT ![c] = "cl_read"]
    /\ UNCHANGED <<requests, handler, cacheVars, db, auth, friends, connections, nextSid, user, sessionId,
                   connected, ready, wsOpen, worker, subs, psConn, inbox, published, sent,
                   task, ops>>

CloseWrite(c) ==
    /\ pc[c] = "cl_read"
    /\ sessionId[c] \in Range(local[c].session_ids)
    /\ CloseWriteKv(c, local[c].session_ids)
    /\ pc' = [pc EXCEPT ![c] = "cl_written"]
    /\ UNCHANGED <<requests, handler, now, existLog, lastCall, db, auth, friends, connections, nextSid, user, sessionId,
                   connected, ready, listener, wsOpen, local, worker, subs, psConn,
                   inbox, published, sent, task, ops>>

ClosePop(c) ==
    /\ \/ pc[c] = "cl_written"
       \/ pc[c] = "cl_read" /\ sessionId[c] \notin Range(local[c].session_ids)
    /\ ClosePopUnsubscribe(c)
    /\ pc' = [pc EXCEPT ![c] = "cl_unsub"]
    /\ UNCHANGED <<requests, handler, cacheVars, db, auth, friends, nextSid, user, sessionId, connected, ready,
                   listener, wsOpen, local, worker, inbox, published, sent, task, ops>>

CloseAclose(c) ==
    /\ pc[c] = "cl_unsub"
    /\ CloseRelease(c)
    /\ pc' = [pc EXCEPT ![c] = "cl_released"]
    /\ UNCHANGED <<requests, handler, cacheVars, db, auth, friends, connections, nextSid, user, sessionId,
                   connected, ready, listener, wsOpen, local, worker, sent, task, ops, published>>

CloseEnd(c) ==
    /\ pc[c] = "cl_released"
    /\ connected' = [connected EXCEPT ![c] = FALSE]
    /\ pc' = [pc EXCEPT ![c] = "done"]
    /\ UNCHANGED <<requests, handler, cacheVars, db, auth, friends, connections, nextSid, user, sessionId,
                   ready, listener, wsOpen, local, worker, subs, psConn, inbox, published, sent,
                   task, ops>>

(* -- ConnectionManager._subscribe_event_channels_worker -- *)

\* the two subscribe calls made for each friend
RECURSIVE FriendChannelsWithoutUpdate(_)
FriendChannelsWithoutUpdate(friend_ids) ==
    IF friend_ids = <<>> THEN <<>>
    ELSE <<ChannelUserDelete(Head(friend_ids)), ChannelUserDelete(Head(friend_ids))>>
         \o FriendChannelsWithoutUpdate(Tail(friend_ids))
RECURSIVE FriendChannels(_)
FriendChannels(friend_ids) ==
    IF friend_ids = <<>> THEN <<>>
    ELSE <<ChannelUserUpdate(Head(friend_ids)), ChannelUserDelete(Head(friend_ids))>>
         \o FriendChannels(Tail(friend_ids))

\* the subscribe calls of the worker, in the order it makes them
SubscriptionPlanWithoutRequests(uid, friend_ids) ==
    FriendChannels(friend_ids) \o
    <<ChannelFriendCreate(uid), ChannelFriendDelete(uid),
      ChannelMessageCreate(DIRECT, uid), ChannelMessageUpdate(DIRECT, uid),
      ChannelMessageDelete(DIRECT, uid)>>
SubscriptionPlan(uid, friend_ids) ==
    FriendChannels(friend_ids) \o
    <<ChannelFriendCreate(uid), ChannelFriendDelete(uid),
      ChannelFriendRequestReceive(uid),
      ChannelMessageCreate(DIRECT, uid), ChannelMessageUpdate(DIRECT, uid),
      ChannelMessageDelete(DIRECT, uid)>>

WorkerFetch(c) ==
    /\ worker[c].pc = "fetch"
    /\ LET friend_ids == FetchAllFriends(friends, UidOf(c))
       IN  worker' = [worker EXCEPT ![c] =
                        [pc |-> "sub", friends |-> friend_ids,
                         todo |-> SubscriptionPlan(UidOf(c), friend_ids)]]
    /\ UNCHANGED <<requests, handler, cacheVars, db, auth, friends, connections, nextSid, user, pc, sessionId,
                   connected, ready, listener, wsOpen, local, subs, psConn, inbox, published,
                   sent, task, ops>>

\* one subscribe call; a released pubsub takes a new connection for it
WorkerSubscribe(c) ==
    /\ worker[c].pc = "sub"
    /\ worker[c].todo # <<>>
    /\ subs' = [subs EXCEPT ![c] = @ \cup {Head(worker[c].todo)}]
    /\ psConn' = [psConn EXCEPT ![c] = TRUE]
    /\ worker' = [worker EXCEPT ![c].todo = Tail(@)]
    /\ UNCHANGED <<requests, handler, cacheVars, db, auth, friends, connections, nextSid, user, pc, sessionId,
                   connected, ready, listener, wsOpen, local, inbox, published, sent, task, ops>>

\* the worker may raise the readiness event
WorkerMaySetReady(c) == worker[c].todo = <<>>

\* ws._ready.set(), after the last subscribe call has returned
WorkerSetReady(c) ==
    /\ worker[c].pc = "sub"
    /\ WorkerMaySetReady(c)
    /\ ready' = [ready EXCEPT ![c] = TRUE]
    /\ worker' = [worker EXCEPT ![c].pc = "done"]
    /\ UNCHANGED <<requests, handler, cacheVars, db, auth, friends, connections, nextSid, user, pc, sessionId,
                   connected, listener, wsOpen, local, subs, psConn, inbox, published, sent,
                   task, ops>>

\* fetch_all_friends or a subscribe call raises: the exception ends the
\* worker task, which nothing awaits
WorkerFail(c) ==
    /\ worker[c].pc \in {"fetch", "sub"}
    /\ worker[c].pc = "sub" => worker[c].todo # <<>>
    /\ worker' = [worker EXCEPT ![c].pc = "failed"]
    /\ UNCHANGED <<requests, handler, cacheVars, db, auth, friends, connections, nextSid, user, pc, sessionId,
                   connected, ready, listener, wsOpen, local, subs, psConn, inbox,
                   published, sent, task, ops>>

(* -- WSClient._pubsub_listener_worker and the event handler -- *)

\* handlers run inside get_message, which only the listener task calls
CanRelayUnlistened(c) == psConn[c]
CanRelay(c) == listener[c] = "running"

\* get_message reads one message; its handler sends the EVENT packet
Relay(c) ==
    /\ CanRelay(c)
    /\ psConn[c]
    /\ inbox[c] # <<>>
    /\ inbox' = [inbox EXCEPT ![c] = Tail(@)]
    /\ LET msg == Head(inbox[c])
           asserted == StartsWith(SplitFirst(msg.channel, ":"), S_event_)
       IN  /\ IF asserted THEN SendTo(c, EventPacket(msg)) ELSE UNCHANGED sent
           /\ \/ listener' = [listener EXCEPT ![c] =
                                 IF ~asserted THEN "crashed"
                                 ELSE IF @ = "running" /\ ~connected[c] THEN "exited"
                                 ELSE @]
              \/ ~wsOpen[c] /\ listener' = [listener EXCEPT ![c] = "crashed"]
    /\ UNCHANGED <<requests, handler, cacheVars, db, auth, friends, connections, nextSid, user, pc, sessionId,
                   connected, ready, wsOpen, local, worker, subs, psConn, task, ops, published>>

\* get_message fails once the pubsub has no connection
ListenerStop(c) ==
    /\ listener[c] = "running"
    /\ ~psConn[c]
    /\ listener' = [listener EXCEPT ![c] = "crashed"]
    /\ UNCHANGED <<requests, handler, cacheVars, db, auth, friends, connections, nextSid, user, pc, sessionId,
                   connected, ready, wsOpen, local, worker, subs, psConn, inbox, published, sent,
                   task, ops>>

(* -- EventHandler dispatch helpers, and the handlers that call them -- *)

DispatchUserUpdate(usr) ==
    /\ ops < MaxOps
    /\ ops' = ops + 1
    /\ inbox' = Deliver(inbox, ChannelUserUpdate(usr.id), UserPayload(usr))
    /\ published' = Append(published, Message(ChannelUserUpdate(usr.id), UserPayload(usr)))
    /\ UNCHANGED <<requests, handler, cacheVars, db, auth, friends, connections, nextSid, user, pc, sessionId,
                   connected, ready, listener, wsOpen, local, worker, subs, psConn,
                   sent, task>>

\* dispatch_user_delete(user_id), the last call of delete_user
DispatchUserDelete(uid) ==
    /\ ops < MaxOps
    /\ ops' = ops + 1
    /\ inbox' = Deliver(inbox, ChannelUserDelete(uid), UserIdPayload(uid))
    /\ published' = Append(published, Message(ChannelUserDelete(uid), UserIdPayload(uid)))
    /\ UNCHANGED <<requests, handler, cacheVars, db, auth, friends, connections, nextSid, user, pc, sessionId,
                   connected, ready, listener, wsOpen, local, worker, subs, psConn,
                   sent, task>>

\* "if user_id == target_id: raise REQUESTER_RECIPIENT_ID_EQUAL"
MayBefriendAny(a, b) == TRUE
MayBefriend(a, b) == a # b

\* the two publish calls of dispatch_friend_create, as <<channel, payload>>
DispatchFriendCreateSamePayload(operating_user_id, target_id) ==
    << <<ChannelFriendCreate(operating_user_id), UserIdPayload(target_id)>>,
       <<ChannelFriendCreate(target_id), UserIdPayload(target_id)>> >>
DispatchFriendCreateCalls(operating_user_id, target_id) ==
    << <<ChannelFriendCreate(operating_user_id), UserIdPayload(target_id)>>,
       <<ChannelFriendCreate(target_id), UserIdPayload(operating_user_id)>> >>

\* the two publish calls of dispatch_friend_delete
DispatchFriendDeleteCalls(operating_user_id, target_id) ==
    << <<ChannelFriendDelete(operating_user_id), UserIdPayload(target_id)>>,
       <<ChannelFriendDelete(target_id), UserIdPayload(operating_user_id)>> >>

\* send_accept_friend_request, accepting: the edge is inserted (a duplicate
\* _id is refused and ends the handler), then dispatch_friend_create
AcceptFriendRequest(t, a, b) ==
    /\ task[t].op = "idle"
    /\ ops < MaxOps
    /\ MayBefriend(a, b)
    /\ ops' = ops + 1
    /\ IF <<a, b>> \in Range(friends)
       THEN UNCHANGED <<friends, task>>
       ELSE /\ friends' = Append(friends, <<a, b>>)
            /\ task' = [task EXCEPT ![t] =
                          [IdleTask EXCEPT !.op = "friend_create", !.pc = "pub1",
                                           !.a = a, !.b = b]]
    /\ UNCHANGED <<requests, handler, cacheVars, db, auth, connections, nextSid, user, pc, sessionId,
                   connected, ready, listener, wsOpen, local, worker, subs, psConn,
                   inbox, published, sent>>

DispatchFriendCreateFirst(t) ==
    /\ task[t].op = "friend_create"
    /\ task[t].pc = "pub1"
    /\ LET call == DispatchFriendCreateCalls(task[t].a, task[t].b)[1]
       IN  /\ inbox' = Deliver(inbox, call[1], call[2])
           /\ published' = Append(published, Message(call[1], call[2]))
    /\ task' = [task EXCEPT ![t].pc = "pub2"]
    /\ UNCHANGED <<requests, handler, cacheVars, db, auth, friends, connections, nextSid, user, pc, sessionId,
                   connected, ready, listener, wsOpen, local, worker, subs, psConn,
                   sent, ops>>

DispatchFriendCreateSecond(t) ==
    /\ task[t].op = "friend_create"
    /\ task[t].pc = "pub2"
    /\ LET call == DispatchFriendCreateCalls(task[t].a, task[t].b)[2]
       IN  /\ inbox' = Deliver(inbox, call[1], call[2])
           /\ published' = Append(published, Message(call[1], call[2]))
    /\ task' = [task EXCEPT ![t] = IdleTask]
    /\ UNCHANGED <<requests, handler, cacheVars, db, auth, friends, connections, nextSid, user, pc, sessionId,
                   connected, ready, listener, wsOpen, local, worker, subs, psConn,
                   sent, ops>>

\* delete_many on both orientations of the edge
RECURSIVE DeleteEdges(_, _, _)
DeleteEdges(edges, a, b) ==
    IF edges = <<>> THEN <<>>
    ELSE IF Head(edges) \in {<<a, b>>, <<b, a>>} THEN DeleteEdges(Tail(edges), a, b)
    ELSE <<Head(edges)>> \o DeleteEdges(Tail(edges), a, b)

\* unfriend_user: the edges go, then dispatch_friend_delete
UnfriendUserUnsubscribing(t, a, b) ==
    /\ task[t].op = "idle"
    /\ ops < MaxOps
    /\ a # b
    /\ ops' = ops + 1
    /\ friends' = DeleteEdges(friends, a, b)
    /\ task' = [task EXCEPT ![t] =
                  [IdleTask EXCEPT !.op = "friend_delete", !.pc = "pub1",
                                   !.a = a, !.b = b]]
    /\ subs' = [c \in Conns |->
                  subs[c] \ {ChannelUserUpdate(a), ChannelUserUpdate(b),
                             ChannelUserDelete(a), ChannelUserDelete(b)}]
    /\ UNCHANGED <<requests, handler, cacheVars, db, auth, connections, nextSid, user, pc, sessionId,
                   connected, ready, listener, wsOpen, local, worker, psConn,
                   inbox, published, sent>>
UnfriendUser(t, a, b) ==
    /\ task[t].op = "idle"
    /\ ops < MaxOps
    /\ a # b
    /\ ops' = ops + 1
    /\ friends' = DeleteEdges(friends, a, b)
    /\ task' = [task EXCEPT ![t] =
                  [IdleTask EXCEPT !.op = "friend_delete", !.pc = "pub1",
                                   !.a = a, !.b = b]]
    /\ UNCHANGED <<requests, handler, cacheVars, db, auth, connections, nextSid, user, pc, sessionId,
                   connected, ready, listener, wsOpen, local, worker, subs, psConn,
                   inbox, published, sent>>

DispatchFriendDeleteFirst(t) ==
    /\ task[t].op = "friend_delete"
    /\ task[t].pc = "pub1"
    /\ LET call == DispatchFriendDeleteCalls(task[t].a, task[t].b)[1]
       IN  /\ inbox' = Deliver(inbox, call[1], call[2])
           /\ published' = Append(published, Message(call[1], call[2]))
    /\ task' = [task EXCEPT ![t].pc = "pub2"]
    /\ UNCHANGED <<requests, handler, cacheVars, db, auth, friends, connections, nextSid, user, pc, sessionId,
                   connected, ready, listener, wsOpen, local, worker, subs, psConn,
                   sent, ops>>

DispatchFriendDeleteSecond(t) ==
    /\ task[t].op = "friend_delete"
    /\ task[t].pc = "pub2"
    /\ LET call == DispatchFriendDeleteCalls(task[t].a, task[t].b)[2]
       IN  /\ inbox' = Deliver(inbox, call[1], call[2])
           /\ published' = Append(published, Message(call[1], call[2]))
    /\ task' = [task EXCEPT ![t] = IdleTask]
    /\ UNCHANGED <<requests, handler, cacheVars, db, auth, friends, connections, nextSid, user, pc, sessionId,
                   connected, ready, listener, wsOpen, local, worker, subs, psConn,
                   sent, ops>>

(* -- ConnectionManager.disconnect_user_connections -- *)

\* the loop passes over the session ids that have no local connection
SkipAbsentEndsLoop(session_ids, conns) ==
    IF session_ids = <<>> \/ Head(session_ids) \in DOMAIN conns THEN session_ids
    ELSE <<>>
RECURSIVE SkipAbsent(_, _)
SkipAbsent(session_ids, conns) ==
    IF session_ids = <<>> \/ Head(session_ids) \in DOMAIN conns THEN session_ids
    ELSE SkipAbsent(Tail(session_ids), conns)

\* what ends the loop: clear_user_session_ids
ClearKeepingOthers(store, uid, session_ids) ==
    IF GetUserSessions(store, now, uid) = <<>> THEN store
    ELSE KvSet(store, now, SchemeUserSessions(uid),
               JsonDumps(SelectSeq(GetUserSessions(store, now, uid),
                                   LAMBDA x : x \notin Range(session_ids))),
               NoExpiry, FALSE)
ClearAtEnd(store, uid, session_ids) == ClearUserSessionIdsKv(store, uid)

\* the loop goes on from the ids left: close() of the next local connection
\* begins, or the cached list is cleared
DisconnectNext(t, left) ==
    IF left = <<>>
    THEN /\ kv' = ClearAtEnd(kv, task[t].a, task[t].listed)
         /\ task' = [task EXCEPT ![t].pc = "cleared", ![t].todo = <<>>,
                                 ![t].closing = "none"]
         /\ UNCHANGED listener
    ELSE LET c == connections[Head(left)]
         IN  /\ CloseCancel(c)
             /\ task' = [task EXCEPT ![t].pc = "cl_read", ![t].todo = Tail(left),
                                     ![t].closing = c,
                                     ![t].session_ids =
                                         GetUserSessions(kv, now, UidOf(c))]
             /\ UNCHANGED kv

\* get_user_sessions
DisconnectRead(t, uid) ==
    /\ task[t].op = "idle"
    /\ ops < MaxOps
    /\ ops' = ops + 1
    /\ task' = [task EXCEPT ![t] =
                  [IdleTask EXCEPT !.op = "disconnect", !.pc = "loop", !.a = uid,
                                   !.todo = GetUserSessions(kv, now, uid),
                                   !.listed = GetUserSessions(kv, now, uid)]]
    /\ UNCHANGED <<requests, handler, cacheVars, db, auth, friends, connections, nextSid, user, pc, sessionId,
                   connected, ready, listener, wsOpen, local, worker, subs, psConn,
                   inbox, published, sent>>

DisconnectLoop(t) ==
    /\ task[t].op = "disconnect"
    /\ task[t].pc = "loop"
    /\ DisconnectNext(t, SkipAbsent(task[t].todo, connections))
    /\ UNCHANGED <<requests, handler, now, existLog, lastCall, db, auth, friends, connections, nextSid, user, pc, sessionId,
                   connected, ready, wsOpen, local, worker, subs, psConn, inbox, published, sent,
                   ops>>

(* -- close() run by disconnect_user_connections on a local connection -- *)

TaskCloseWrite(t) ==
    /\ task[t].pc = "cl_read"
    /\ sessionId[task[t].closing] \in Range(task[t].session_ids)
    /\ CloseWriteKv(task[t].closing, task[t].session_ids)
    /\ task' = [task EXCEPT ![t].pc = "cl_written"]
    /\ UNCHANGED <<requests, handler, now, existLog, lastCall, db, auth, friends, connections, nextSid, user, pc, sessionId,
                   connected, ready, listener, wsOpen, local, worker, subs, psConn,
                   inbox, published, sent, ops>>

TaskClosePop(t) ==
    /\ \/ task[t].pc = "cl_written"
       \/ /\ task[t].pc = "cl_read"
          /\ sessionId[task[t].closing] \notin Range(task[t].session_ids)
    /\ ClosePopUnsubscribe(task[t].closing)
    /\ task' = [task EXCEPT ![t].pc = "cl_unsub"]
    /\ UNCHANGED <<requests, handler, cacheVars, db, auth, friends, nextSid, user, pc, sessionId, connected, ready,
                   listener, wsOpen, local, worker, inbox, published, sent, ops>>

TaskCloseAclose(t) ==
    /\ task[t].pc = "cl_unsub"
    /\ CloseRelease(task[t].closing)
    /\ task' = [task EXCEPT ![t].pc = "cl_released"]
    /\ UNCHANGED <<requests, handler, cacheVars, db, auth, friends, connections, nextSid, user, pc, sessionId,
                   connected, ready, listener, wsOpen, local, worker, sent, ops, published>>

\* close() returns and the loop goes on without suspending
TaskCloseEnd(t) ==
    /\ task[t].pc = "cl_released"
    /\ connected' = [connected EXCEPT ![task[t].closing] = FALSE]
    /\ DisconnectNext(t, SkipAbsent(task[t].todo, connections))
    /\ UNCHANGED <<requests, handler, now, existLog, lastCall, db, auth, friends, connections, nextSid, user, pc, sessionId,
                   ready, wsOpen, local, worker, subs, psConn, inbox, published, sent, ops>>

\* disconnect_user_connections returns
DisconnectReturn(t) ==
    /\ task[t].op = "disconnect"
    /\ task[t].pc = "cleared"
    /\ task' = [task EXCEPT ![t] = IdleTask]
    /\ UNCHANGED <<requests, handler, cacheVars, db, auth, friends, connections, nextSid, user, pc, sessionId,
                   connected, ready, listener, wsOpen, local, worker, subs, psConn,
                   inbox, published, sent, ops>>

-----------------------------------------------------------------------------
(* websocket_route and DatabaseClient.fetch_user_authorized *)

\* a token that no user was ever given, and helpers.generate_token(): a token
\* that differs from every earlier one
BadToken == <<"t", "x">>
GenerateToken(old) == old \o <<"'">>
NewPassword(old) == old \o <<"'">>

\* the tokens clients present
RouteTokens == {TokOf(U1), GenerateToken(TokOf(U1)), BadToken}

\* users.find_one({"token": token})
FindOneByToken(store, token) ==
    IF \E u \in DOMAIN store : store[u].token = token
    THEN Some(store[CHOOSE u \in DOMAIN store : store[u].token = token])
    ELSE None

\* "if user is None: raise WebSocketException"
RouteAcceptsAny(usr) == TRUE
RouteAccepts(usr) == usr # None

\* what websocket_route does with the result of fetch_user_authorized
RouteResult(usr) == IF RouteAccepts(usr) THEN "ok" ELSE "rejected"

\* "if user and cache": what the store returned is written to the cache
FetchPopulatesAlways(usr, cache) == usr # None
FetchPopulates(usr, cache) == usr # None /\ cache

\* fetch_user_authorized(token, cache) up to its first await that returns:
\* get_user_by_token, whose hit is returned at once, or with cache=False the
\* read of the store. io is the history of the calls made.
FetchBegin(c, token, cache) ==
    /\ auth[c].pc = "idle"
    /\ pc[c] = "idle"
    /\ IF cache
       THEN LET usr == GetUserByToken(kv, now, token)
            IN  auth' = [auth EXCEPT ![c] =
                           [pc |-> IF usr # None THEN RouteResult(usr) ELSE "db",
                            token |-> token, user |-> usr, cache |-> cache,
                            io |-> <<"get">>]]
       ELSE LET usr == FindOneByToken(db, token)
            IN  auth' = [auth EXCEPT ![c] =
                           [pc |-> IF FetchPopulates(usr, cache) THEN "set"
                                   ELSE RouteResult(usr),
                            token |-> token, user |-> usr, cache |-> cache,
                            io |-> <<"find_one">>]]
    /\ UNCHANGED <<requests, handler, cacheVars, db, friends, connections, nextSid, user, pc, sessionId,
                   connected, ready, listener, wsOpen, local, worker, subs, psConn,
                   inbox, published, sent, task, ops>>

\* websocket_route calls fetch_user_authorized(token)
RouteGetCached(c, token) == FetchBegin(c, token, TRUE)

\* the call returns to a caller that makes another one
FetchReturn(c) ==
    /\ auth[c].pc \in {"ok", "rejected"}
    /\ auth' = [auth EXCEPT ![c] = IdleAuth]
    /\ UNCHANGED <<requests, handler, cacheVars, db, friends, connections, nextSid, user, pc, sessionId,
                   connected, ready, listener, wsOpen, local, worker, subs, psConn,
                   inbox, published, sent, task, ops>>

\* users.find_one({"token": token}) after a miss; no user is returned as None
RouteFindOne(c) ==
    /\ auth[c].pc = "db"
    /\ LET usr == FindOneByToken(db, auth[c].token)
       IN  auth' = [auth EXCEPT ![c].user = usr,
                                ![c].io = Append(@, "find_one"),
                                ![c].pc = IF FetchPopulates(usr, auth[c].cache)
                                          THEN "set" ELSE RouteResult(usr)]
    /\ UNCHANGED <<requests, handler, cacheVars, db, friends, connections, nextSid, user, pc, sessionId,
                   connected, ready, listener, wsOpen, local, worker, subs, psConn,
                   inbox, published, sent, task, ops>>

\* set_user_by_token(user) of what the database returned
RouteSetCached(c) ==
    /\ auth[c].pc = "set"
    /\ SetUserByToken(auth[c].user[1], FALSE)
    /\ auth' = [auth EXCEPT ![c].pc = RouteResult(auth[c].user),
                            ![c].io = Append(@, "set")]
    /\ UNCHANGED <<requests, handler, db, friends, connections, nextSid, user, pc, sessionId,
                   connected, ready, listener, wsOpen, local, worker, subs, psConn,
                   inbox, published, sent, task, ops>>

\* WSClient(websocket, db, user) and the first step of start()
RouteStart(c) ==
    /\ auth[c].pc = "ok"
    /\ pc[c] = "idle"
    /\ auth' = [auth EXCEPT ![c].pc = "started"]
    /\ nextSid' = nextSid + 1
    /\ user' = [user EXCEPT ![c] = auth[c].user]
    /\ local' = [local EXCEPT ![c] =
                    [sid |-> MintSessionId(nextSid),
                     session_ids |-> GetUserSessions(kv, now, auth[c].user[1].id)]]
    /\ pc' = [pc EXCEPT ![c] = "reg_write"]
    /\ UNCHANGED <<requests, handler, cacheVars, db, friends, connections, sessionId, connected, ready,
                   listener, wsOpen, worker, subs, psConn, inbox, published, sent, task, ops>>

(* -- DatabaseClient.edit_user -- *)

EditedUsers == {U1}
EditKinds == {"password", "username"}

\* a password change first reads the user (fetch_user); a username change
\* first validates the new name
EditBegin(t, uid, kind) ==
    /\ task[t].op = "idle"
    /\ ops < MaxOps
    /\ ops' = ops + 1
    /\ task' = [task EXCEPT ![t] =
                  [IdleTask EXCEPT !.op = "edit_" \o kind,
                                   !.pc = IF kind = "password" THEN "evict" ELSE "update",
                                   !.a = uid,
                                   !.b = IF kind = "password" THEN Some(db[uid])
                                         ELSE None]]
    /\ UNCHANGED <<requests, handler, cacheVars, db, auth, friends, connections, nextSid, user, pc,
                   sessionId, connected, ready, listener, wsOpen, local, worker, subs,
                   psConn, inbox, published, sent>>

\* delete_user_by_token(user.token): the entry of the token that is replaced
EditEvict(t) ==
    /\ task[t].op = "edit_password"
    /\ task[t].pc = "evict"
    /\ DeleteUserByToken(task[t].b[1].token)
    /\ task' = [task EXCEPT ![t].pc = "update"]
    /\ UNCHANGED <<requests, handler, db, auth, friends, connections, nextSid, user, pc,
                   sessionId, connected, ready, listener, wsOpen, local, worker, subs,
                   psConn, inbox, published, sent, ops>>

\* the document after find_one_and_update
EditedUser(usr, kind) ==
    IF kind = "edit_password"
    THEN [usr EXCEPT !.password = NewPassword(@), !.token = GenerateToken(@)]
    ELSE [usr EXCEPT !.username = AltName(usr.id)]

EditUpdate(t) ==
    /\ task[t].op \in {"edit_password", "edit_username"}
    /\ task[t].pc = "update"
    /\ db' = [db EXCEPT ![task[t].a] = EditedUser(@, task[t].op)]
    /\ task' = [task EXCEPT ![t].pc = "store",
                            ![t].b = Some(EditedUser(db[task[t].a], task[t].op))]
    /\ UNCHANGED <<requests, handler, cacheVars, auth, friends, connections, nextSid, user, pc,
                   sessionId, connected, ready, listener, wsOpen, local, worker, subs,
                   psConn, inbox, published, sent, ops>>

\* set_user_by_token(user, update=update): unconditional after a password change
EditStore(t) ==
    /\ task[t].op \in {"edit_password", "edit_username"}
    /\ task[t].pc = "store"
    /\ SetUserByToken(task[t].b[1], task[t].op # "edit_password")
    /\ task' = [task EXCEPT ![t].pc = "dispatch"]
    /\ UNCHANGED <<requests, handler, db, auth, friends, connections, nextSid, user, pc,
                   sessionId, connected, ready, listener, wsOpen, local, worker, subs,
                   psConn, inbox, published, sent, ops>>

\* dispatch_user_update(user), and edit_user returns
EditDispatch(t) ==
    /\ task[t].op \in {"edit_password", "edit_username"}
    /\ task[t].pc = "dispatch"
    /\ inbox' = Deliver(inbox, ChannelUserUpdate(task[t].a), UserPayload(task[t].b[1]))
    /\ published' = Append(published, Message(ChannelUserUpdate(task[t].a),
                                              UserPayload(task[t].b[1])))
    /\ task' = [task EXCEPT ![t] = IdleTask]
    /\ UNCHANGED <<requests, handler, cacheVars, db, auth, friends, connections, nextSid, user, pc,
                   sessionId, connected, ready, listener, wsOpen, local, worker, subs,
                   psConn, sent, ops>>

-----------------------------------------------------------------------------
(* DatabaseClient.validate_user_exists *)

\* the ids that handlers are given
ValidatedUsers == {U1}
AccountTokens == {TokOf(U1)}
AccountHandlers == {"h1"}

\* "if exists is None": the store is asked only when the cache has no answer
ValidateConsultsUnlessFalse(exists) == exists # "False"
ValidateConsults(exists) == exists = "None"

\* check_user_id_exists: a cached answer decides, no answer leads to the store
ValidateBegin(h, uid) ==
    /\ handler[h].op = "idle"
    /\ ops < MaxOps
    /\ ops' = ops + 1
    /\ LET exists == CheckUserIdExists(kv, now, uid)
       IN  handler' = [handler EXCEPT ![h] =
                          [IdleHandler EXCEPT
                              !.op = "validate", !.b = uid, !.cached = exists,
                              !.found = (exists = "True"),
                              !.pc = IF ValidateConsults(exists)
                                     THEN "val_find" ELSE "val_end"]]
    /\ UNCHANGED <<requests, cacheVars, db, auth, friends, connections, nextSid, user,
                   pc, sessionId, connected, ready, listener, wsOpen, local, worker,
                   subs, psConn, inbox, published, sent, task>>

\* users.find_one({"_id": user_id})
ValidateFind(h) ==
    /\ handler[h].pc = "val_find"
    /\ handler' = [handler EXCEPT ![h].found = (handler[h].b \in DOMAIN db),
                                  ![h].pc = "val_set"]
    /\ UNCHANGED <<requests, cacheVars, db, auth, friends, connections, nextSid, user,
                   pc, sessionId, connected, ready, listener, wsOpen, local, worker,
                   subs, psConn, inbox, published, sent, task, ops>>

\* set_user_id_exists(user_id, exists is not None)
ValidateSet(h) ==
    /\ handler[h].pc = "val_set"
    /\ SetUserIdExists(handler[h].b, handler[h].found, FALSE)
    /\ handler' = [handler EXCEPT ![h].pc = "val_end"]
    /\ UNCHANGED <<requests, db, auth, friends, connections, nextSid, user,
                   pc, sessionId, connected, ready, listener, wsOpen, local, worker,
                   subs, psConn, inbox, published, sent, task, ops>>

\* "if not exists: raise ENTITY_NOT_FOUND", else the call returns
ValidateEnd(h) ==
    /\ handler[h].op = "validate"
    /\ handler[h].pc = "val_end"
    /\ handler' = [handler EXCEPT ![h] =
                      [IdleHandler EXCEPT
                          !.out = IF handler[h].found THEN "ok" ELSE "not_found"]]
    /\ UNCHANGED <<requests, cacheVars, db, auth, friends, connections, nextSid, user,
                   pc, sessionId, connected, ready, listener, wsOpen, local, worker,
                   subs, psConn, inbox, published, sent, task, ops>>

-----------------------------------------------------------------------------
(* DatabaseClient.delete_user *)

\* "if not deleted: return"
DeleteFoundAlways(deleted) == TRUE
DeleteFound(deleted) == deleted # None

\* deleted["token"]
DeletedToken(deleted) == IF deleted = None THEN None ELSE deleted[1].token

\* users.find_one_and_delete({"_id": user_id})
DeleteBegin(t, uid) ==
    /\ task[t].op = "idle"
    /\ ops < MaxOps
    /\ ops' = ops + 1
    /\ LET deleted == IF uid \in DOMAIN db THEN Some(db[uid]) ELSE None
       IN  task' = [task EXCEPT ![t] =
                      [IdleTask EXCEPT
                          !.op = "delete_user", !.a = uid, !.b = deleted,
                          !.pc = IF DeleteFound(deleted) THEN "del_requests"
                                 ELSE "absent"]]
    /\ db' = MapPop(db, uid)
    /\ UNCHANGED <<requests, handler, cacheVars, auth, friends, connections, nextSid,
                   user, pc, sessionId, connected, ready, listener, wsOpen, local,
                   worker, subs, psConn, inbox, published, sent>>

\* nothing was deleted: delete_user returns
DeleteAbsent(t) ==
    /\ task[t].op = "delete_user"
    /\ task[t].pc = "absent"
    /\ task' = [task EXCEPT ![t] = IdleTask]
    /\ UNCHANGED <<requests, handler, cacheVars, db, auth, friends, connections, nextSid,
                   user, pc, sessionId, connected, ready, listener, wsOpen, local,
                   worker, subs, psConn, inbox, published, sent, ops>>

\* friend_requests.delete_many: the requests the user sent or received
DeleteRequests(t) ==
    /\ task[t].op = "delete_user"
    /\ task[t].pc = "del_requests"
    /\ requests' = {r \in requests : r[1] # task[t].a /\ r[2] # task[t].a}
    /\ task' = [task EXCEPT ![t].pc = "del_friends"]
    /\ UNCHANGED <<handler, cacheVars, db, auth, friends, connections, nextSid,
                   user, pc, sessionId, connected, ready, listener, wsOpen, local,
                   worker, subs, psConn, inbox, published, sent, ops>>

\* friends.delete_many: the edges the user is an end of
DeleteFriends(t) ==
    /\ task[t].op = "delete_user"
    /\ task[t].pc = "del_friends"
    /\ friends' = SelectSeq(friends,
                            LAMBDA e : e[1] # task[t].a /\ e[2] # task[t].a)
    /\ task' = [task EXCEPT ![t].pc = "del_token"]
    /\ UNCHANGED <<requests, handler, cacheVars, db, auth, connections, nextSid,
                   user, pc, sessionId, connected, ready, listener, wsOpen, local,
                   worker, subs, psConn, inbox, published, sent, ops>>

\* delete_user_by_token(deleted["token"])
DeleteToken(t) ==
    /\ task[t].op = "delete_user"
    /\ task[t].pc = "del_token"
    /\ DeleteUserByToken(DeletedToken(task[t].b))
    /\ task' = [task EXCEPT ![t].pc = "del_exists"]
    /\ UNCHANGED <<requests, handler, db, auth, friends, connections, nextSid,
                   user, pc, sessionId, connected, ready, listener, wsOpen, local,
                   worker, subs, psConn, inbox, published, sent, ops>>

\* set_user_id_exists(user_id, False, update=True)
DeleteExists(t) ==
    /\ task[t].op = "delete_user"
    /\ task[t].pc = "del_exists"
    /\ SetUserIdExists(task[t].a, FALSE, TRUE)
    /\ task' = [task EXCEPT ![t].pc = "del_disconnect"]
    /\ UNCHANGED <<requests, handler, db, auth, friends, connections, nextSid,
                   user, pc, sessionId, connected, ready, listener, wsOpen, local,
                   worker, subs, psConn, inbox, published, sent, ops>>

\* disconnect_user_connections(user_id) begins: get_user_sessions; the loop
\* and the close() calls are those of DisconnectLoop and TaskClose*
DeleteDisconnect(t) ==
    /\ task[t].op = "delete_user"
    /\ task[t].pc = "del_disconnect"
    /\ task' = [task EXCEPT ![t].op = "disconnect", ![t].pc = "loop",
                            ![t].todo = GetUserSessions(kv, now, task[t].a),
                            ![t].listed = GetUserSessions(kv, now, task[t].a)]
    /\ UNCHANGED <<requests, handler, cacheVars, db, auth, friends, connections, nextSid,
                   user, pc, sessionId, connected, ready, listener, wsOpen, local,
                   worker, subs, psConn, inbox, published, sent, ops>>

\* disconnect_user_connections has returned to delete_user:
\* dispatch_user_delete(user_id), and delete_user returns
DeleteDispatch(t) ==
    /\ task[t].op = "disconnect"
    /\ task[t].pc = "cleared"
    /\ task[t].b # None
    /\ inbox' = Deliver(inbox, ChannelUserDelete(task[t].a), UserIdPayload(task[t].a))
    /\ published' = Append(published, Message(ChannelUserDelete(task[t].a),
                                              UserIdPayload(task[t].a)))
    /\ task' = [task EXCEPT ![t] = IdleTask]
    /\ UNCHANGED <<requests, handler, cacheVars, db, auth, friends, connections, nextSid,
                   user, pc, sessionId, connected, ready, listener, wsOpen, local,
                   worker, subs, psConn, sent, ops>>

-----------------------------------------------------------------------------
(* ConnectionManager.delete_connection, called from outside close() *)

\* WSClient.session_id: None stands for the RuntimeError raised
SessionIdUnchecked(sid) == Some(sid)
SessionIdProperty(sid) == IF sid = NoSession THEN None ELSE Some(sid)

\* delete_connection(ws) up to its first await: ws.session_id is evaluated
\* for the argument list, then delete_user_session_id reads the cached list
\* (b is the session id and the list read)
DeleteConnectionBegin(h, c) ==
    /\ handler[h].op = "idle"
    /\ ops < MaxOps
    /\ ops' = ops + 1
    /\ user[c] # None
    /\ LET session_id == SessionIdProperty(sessionId[c])
       IN  handler' = [handler EXCEPT ![h] =
                          IF session_id = None
                          THEN [IdleHandler EXCEPT !.a = Some(c), !.out = "RuntimeError"]
                          ELSE [IdleHandler EXCEPT
                                   !.op = "delete_connection", !.pc = "dc_read",
                                   !.a = Some(c),
                                   !.b = <<session_id[1],
                                           GetUserSessions(kv, now, UidOf(c))>>]]
    /\ UNCHANGED <<requests, cacheVars, db, auth, friends, connections, nextSid, user,
                   pc, sessionId, connected, ready, listener, wsOpen, local, worker,
                   subs, psConn, inbox, published, sent, task>>

\* delete_user_session_id writes the list without the id, if it was there
DeleteConnectionWrite(h) ==
    /\ handler[h].pc = "dc_read"
    /\ kv' = DeleteUserSessionIdWrite(kv, now, UidOf(handler[h].a[1]),
                                      handler[h].b[2], handler[h].b[1])
    /\ handler' = [handler EXCEPT ![h].pc = "dc_written"]
    /\ UNCHANGED <<requests, now, existLog, lastCall, db, auth, friends, connections,
                   nextSid, user, pc, sessionId, connected, ready, listener, wsOpen,
                   local, worker, subs, psConn, inbox, published, sent, task, ops>>

\* self._connections.pop(ws.session_id, None), and the call returns
DeleteConnectionPop(h) ==
    /\ handler[h].pc = "dc_written"
    /\ connections' = MapPop(connections, handler[h].b[1])
    /\ handler' = [handler EXCEPT ![h] =
                      [IdleHandler EXCEPT !.a = handler[h].a, !.out = "ok"]]
    /\ UNCHANGED <<requests, cacheVars, db, auth, friends, nextSid, user,
                   pc, sessionId, connected, ready, listener, wsOpen, local, worker,
                   subs, psConn, inbox, published, sent, task, ops>>

-----------------------------------------------------------------------------
(* DatabaseClient.send_accept_friend_request *)

\* the calls made: (user_id, target_id), and how many of them
RequestPairs == {<<U1, U2>>, <<U2, U1>>}
MaxCalls == 4

\* FriendRequest.model_dump_api: the other end of the request, and whether
\* the operating user is its recipient (created_at is left out; the operating
\* user is always one of the two ends here)
FriendRequestDumpApi(request, operating_user_id) ==
    IF operating_user_id = request[2]
    THEN [user_id |-> request[1], incoming |-> TRUE]
    ELSE [user_id |-> request[2], incoming |-> FALSE]

\* fetch_friend: an edge between the two, in either orientation
FetchFriend(edges, a, b) == <<a, b>> \in Range(edges) \/ <<b, a>> \in Range(edges)

\* the handler ends: it returns, or raises the error named
HandlerEnds(h, out) ==
    handler' = [handler EXCEPT ![h] = [IdleHandler EXCEPT !.out = out]]

\* fetch_friend_request(target_id, user_id): is there an incoming request
SendAcceptBegin(h, a, b) ==
    /\ handler[h].op = "idle"
    /\ ops < MaxCalls
    /\ MayBefriend(a, b)
    /\ ops' = ops + 1
    /\ handler' = [handler EXCEPT ![h] =
                      [IdleHandler EXCEPT
                          !.op = "send_accept", !.a = a, !.b = b,
                          !.pc = IF <<b, a>> \in requests THEN "accept_delete"
                                 ELSE "fetch_friend"]]
    /\ UNCHANGED <<requests, cacheVars, db, auth, friends, connections, nextSid, user,
                   pc, sessionId, connected, ready, listener, wsOpen, local, worker,
                   subs, psConn, inbox, published, sent, task>>

\* sending: fetch_friend(user_id, target_id), USER_ALREADY_FRIEND if it finds one
SendFetchFriend(h) ==
    /\ handler[h].pc = "fetch_friend"
    /\ IF FetchFriend(friends, handler[h].a, handler[h].b)
       THEN HandlerEnds(h, "USER_ALREADY_FRIEND")
       ELSE handler' = [handler EXCEPT ![h].pc = "val_check"]
    /\ UNCHANGED <<requests, cacheVars, db, auth, friends, connections, nextSid, user,
                   pc, sessionId, connected, ready, listener, wsOpen, local, worker,
                   subs, psConn, inbox, published, sent, task, ops>>

\* validate_user_exists(target_id): check_user_id_exists
SendValidateCheck(h) ==
    /\ handler[h].pc = "val_check"
    /\ LET exists == CheckUserIdExists(kv, now, handler[h].b)
       IN  handler' = [handler EXCEPT
                          ![h].cached = exists,
                          ![h].found = (exists = "True"),
                          ![h].pc = IF ValidateConsults(exists)
                                    THEN "val_find" ELSE "val_end"]
    /\ UNCHANGED <<requests, cacheVars, db, auth, friends, connections, nextSid, user,
                   pc, sessionId, connected, ready, listener, wsOpen, local, worker,
                   subs, psConn, inbox, published, sent, task, ops>>

\* ENTITY_NOT_FOUND if the target does not exist; else friend_requests.insert_one,
\* FRIEND_REQUEST_ALREADY_SENT on a duplicate _id
SendInsert(h) ==
    /\ handler[h].op = "send_accept"
    /\ handler[h].pc = "val_end"
    /\ LET request == <<handler[h].a, handler[h].b>>
       IN  IF ~handler[h].found
           THEN HandlerEnds(h, "ENTITY_NOT_FOUND") /\ UNCHANGED requests
           ELSE IF request \in requests
           THEN HandlerEnds(h, "FRIEND_REQUEST_ALREADY_SENT") /\ UNCHANGED requests
           ELSE /\ requests' = requests \cup {request}
                /\ handler' = [handler EXCEPT ![h].pc = "req_dispatch"]
    /\ UNCHANGED <<cacheVars, db, auth, friends, connections, nextSid, user,
                   pc, sessionId, connected, ready, listener, wsOpen, local, worker,
                   subs, psConn, inbox, published, sent, task, ops>>

\* dispatch_friend_request_receive(FriendRequest(**request_data,
\* operating_user_id=user_id)), and the handler returns True
SendDispatch(h) ==
    /\ handler[h].pc = "req_dispatch"
    /\ LET request == <<handler[h].a, handler[h].b>>
           channel == ChannelFriendRequestReceive(request[2])
           data == JsonDumps(FriendRequestDumpApi(request, handler[h].a))
       IN  /\ inbox' = Deliver(inbox, channel, data)
           /\ published' = Append(published, Message(channel, data))
    /\ HandlerEnds(h, "sent")
    /\ UNCHANGED <<requests, cacheVars, db, auth, friends, connections, nextSid, user,
                   pc, sessionId, connected, ready, listener, wsOpen, local, worker,
                   subs, psConn, sent, task, ops>>

\* accepting: delete_friend_request(target_id, user_id)
AcceptDelete(h) ==
    /\ handler[h].pc = "accept_delete"
    /\ requests' = requests \ {<<handler[h].b, handler[h].a>>}
    /\ handler' = [handler EXCEPT ![h].pc = "accept_insert"]
    /\ UNCHANGED <<cacheVars, db, auth, friends, connections, nextSid, user,
                   pc, sessionId, connected, ready, listener, wsOpen, local, worker,
                   subs, psConn, inbox, published, sent, task, ops>>

\* friends.insert_one of (first_user=user_id, second_user=target_id); a
\* duplicate _id raises DuplicateKeyError
AcceptInsert(h) ==
    /\ handler[h].pc = "accept_insert"
    /\ LET edge == <<handler[h].a, handler[h].b>>
       IN  IF edge \in Range(friends)
           THEN HandlerEnds(h, "DuplicateKeyError") /\ UNCHANGED friends
           ELSE /\ friends' = Append(friends, edge)
                /\ handler' = [handler EXCEPT ![h].pc = "pub1"]
    /\ UNCHANGED <<requests, cacheVars, db, auth, connections, nextSid, user,
                   pc, sessionId, connected, ready, listener, wsOpen, local, worker,
                   subs, psConn, inbox, published, sent, task, ops>>

\* dispatch_friend_create: the two publish calls; then the handler returns False
AcceptPublish(h) ==
    /\ handler[h].pc \in {"pub1", "pub2"}
    /\ LET call == DispatchFriendCreateCalls(handler[h].a, handler[h].b)
                       [IF handler[h].pc = "pub1" THEN 1 ELSE 2]
       IN  /\ inbox' = Deliver(inbox, call[1], call[2])
           /\ published' = Append(published, Message(call[1], call[2]))
    /\ IF handler[h].pc = "pub1"
       THEN handler' = [handler EXCEPT ![h].pc = "pub2"]
       ELSE HandlerEnds(h, "accepted")
    /\ UNCHANGED <<requests, cacheVars, db, auth, friends, connections, nextSid, user,
                   pc, sessionId, connected, ready, listener, wsOpen, local, worker,
                   subs, psConn, sent, task, ops>>

-----------------------------------------------------------------------------
(* The specifications *)

\* the connection that is followed through its whole life
Followed == {"c2"}

\* one connection from its registration to its end, with the handlers that
\* publish events and disconnect the user
Next ==
    \/ \E c \in Followed : \E u \in ConnUsers(c) : RegisterRead(c, u)
    \/ \E c \in Followed : RegisterWrite(c)
    \/ \E c \in Followed : RegisterDone(c)
    \/ \E c \in Followed : SendHello(c)
    \/ \E c \in Followed : SendReady(c)
    \/ \E c \in Followed : ClientDisconnect(c)
    \/ \E c \in Followed : ClientFrame(c)
    \/ \E c \in Followed : CloseBegin(c)
    \/ \E c \in Followed : CloseWrite(c)
    \/ \E c \in Followed : ClosePop(c)
    \/ \E c \in Followed : CloseAclose(c)
    \/ \E c \in Followed : CloseEnd(c)
    \/ \E c \in Followed : WorkerFetch(c)
    \/ \E c \in Followed : WorkerSubscribe(c)
    \/ \E c \in Followed : WorkerSetReady(c)
    \/ \E c \in Followed : WorkerFail(c)
    \/ \E c \in Followed : Relay(c)
    \/ \E c \in Followed : ListenerStop(c)
    \/ \E u \in UpdatedUsers : DispatchUserUpdate(UserRecord(u))
    \/ \E t \in Tasks : \E p \in FriendPairs : AcceptFriendRequest(t, p[1], p[2])
    \/ \E t \in Tasks : DispatchFriendCreateFirst(t)
    \/ \E t \in Tasks : DispatchFriendCreateSecond(t)
    \/ \E t \in Tasks : \E p \in FriendPairs : UnfriendUser(t, p[1], p[2])
    \/ \E t \in Tasks : DispatchFriendDeleteFirst(t)
    \/ \E t \in Tasks : DispatchFriendDeleteSecond(t)
    \/ \E t \in Tasks : \E u \in DisconnectedUsers : DisconnectRead(t, u)
    \/ \E t \in Tasks : DisconnectLoop(t)
    \/ \E t \in Tasks : TaskCloseWrite(t)
    \/ \E t \in Tasks : TaskClosePop(t)
    \/ \E t \in Tasks : TaskCloseAclose(t)
    \/ \E t \in Tasks : TaskCloseEnd(t)
    \/ \E t \in Tasks : DisconnectReturn(t)

Spec == Init /\ [][Next]_vars

\* one connection from registration to its own close, and every handler that
\* publishes, delete_user's dispatch_user_delete included
NextEvents ==
    \/ \E c \in Followed : \E u \in ConnUsers(c) : RegisterRead(c, u)
    \/ \E c \in Followed : RegisterWrite(c)
    \/ \E c \in Followed : RegisterDone(c)
    \/ \E c \in Followed : SendHello(c)
    \/ \E c \in Followed : SendReady(c)
    \/ \E c \in Followed : ClientDisconnect(c)
    \/ \E c \in Followed : CloseBegin(c)
    \/ \E c \in Followed : CloseWrite(c)
    \/ \E c \in Followed : ClosePop(c)
    \/ \E c \in Followed : CloseAclose(c)
    \/ \E c \in Followed : CloseEnd(c)
    \/ \E c \in Followed : WorkerFetch(c)
    \/ \E c \in Followed : WorkerSubscribe(c)
    \/ \E c \in Followed : WorkerSetReady(c)
    \/ \E c \in Followed : Relay(c)
    \/ \E u \in UpdatedUsers : DispatchUserUpdate(UserRecord(u))
    \/ \E u \in DeletedUsers : DispatchUserDelete(u)
    \/ \E t \in Tasks : \E p \in FriendPairs : AcceptFriendRequest(t, p[1], p[2])
    \/ \E t \in Tasks : DispatchFriendCreateFirst(t)
    \/ \E t \in Tasks : DispatchFriendCreateSecond(t)
    \/ \E t \in Tasks : \E p \in FriendPairs : UnfriendUser(t, p[1], p[2])
    \/ \E t \in Tasks : DispatchFriendDeleteFirst(t)
    \/ \E t \in Tasks : DispatchFriendDeleteSecond(t)

SpecEvents == Init /\ [][NextEvents]_vars

\* one connection from the resolution of its token to its streaming, and
\* the handlers that validate and delete users
NextAccounts ==
    \/ \E c \in Followed : \E token \in AccountTokens : RouteGetCached(c, token)
    \/ \E c \in Followed : RouteFindOne(c)
    \/ \E c \in Followed : RouteSetCached(c)
    \/ \E c \in Followed : RouteStart(c)
    \/ \E c \in Followed : RegisterWrite(c)
    \/ \E c \in Followed : RegisterDone(c)
    \/ \E c \in Followed : SendHello(c)
    \/ \E c \in Followed : SendReady(c)
    \/ \E c \in Followed : WorkerFetch(c)
    \/ \E c \in Followed : WorkerSubscribe(c)
    \/ \E c \in Followed : WorkerSetReady(c)
    \/ \E h \in AccountHandlers : \E u \in ValidatedUsers : ValidateBegin(h, u)
    \/ \E h \in AccountHandlers : ValidateFind(h)
    \/ \E h \in AccountHandlers : ValidateSet(h)
    \/ \E h \in AccountHandlers : ValidateEnd(h)
    \/ \E t \in Tasks : \E u \in ValidatedUsers : DeleteBegin(t, u)
    \/ \E t \in Tasks : DeleteAbsent(t)
    \/ \E t \in Tasks : DeleteRequests(t)
    \/ \E t \in Tasks : DeleteFriends(t)
    \/ \E t \in Tasks : DeleteToken(t)
    \/ \E t \in Tasks : DeleteExists(t)
    \/ \E t \in Tasks : DeleteDisconnect(t)
    \/ \E t \in Tasks : DisconnectLoop(t)
    \/ \E t \in Tasks : TaskCloseWrite(t)
    \/ \E t \in Tasks : TaskClosePop(t)
    \/ \E t \in Tasks : TaskCloseAclose(t)
    \/ \E t \in Tasks : TaskCloseEnd(t)
    \/ \E t \in Tasks : DeleteDispatch(t)

SpecAccounts == Init /\ [][NextAccounts]_vars

\* the handlers that validate and delete users, with no connection, and the
\* clock
NextExistence ==
    \/ \E h \in Handlers : \E u \in ValidatedUsers : ValidateBegin(h, u)
    \/ \E h \in Handlers : ValidateFind(h)
    \/ \E h \in Handlers : ValidateSet(h)
    \/ \E h \in Handlers : ValidateEnd(h)
    \/ \E t \in Tasks : \E u \in ValidatedUsers : DeleteBegin(t, u)
    \/ \E t \in Tasks : DeleteAbsent(t)
    \/ \E t \in Tasks : DeleteRequests(t)
    \/ \E t \in Tasks : DeleteFriends(t)
    \/ \E t \in Tasks : DeleteToken(t)
    \/ \E t \in Tasks : DeleteExists(t)
    \/ \E t \in Tasks : DeleteDisconnect(t)
    \/ \E t \in Tasks : DisconnectLoop(t)
    \/ \E t \in Tasks : DeleteDispatch(t)
    \/ \E d \in TickSteps : Tick(d) /\ UNCHANGED connVars

SpecExistence == Init /\ [][NextExistence]_vars

\* two connections being registered while delete_connection is called on them
NextSession ==
    \/ \E c \in Conns : \E u \in ConnUsers(c) : RegisterRead(c, u)
    \/ \E c \in Conns : RegisterWrite(c)
    \/ \E c \in Conns : RegisterDone(c)
    \/ \E h \in AccountHandlers : \E c \in Conns : DeleteConnectionBegin(h, c)
    \/ \E h \in AccountHandlers : DeleteConnectionWrite(h)
    \/ \E h \in AccountHandlers : DeleteConnectionPop(h)

SpecSession == Init /\ [][NextSession]_vars

\* two handlers of send_accept_friend_request at a time
NextFriends ==
    \/ \E h \in Handlers : \E p \in RequestPairs : SendAcceptBegin(h, p[1], p[2])
    \/ \E h \in Handlers : SendFetchFriend(h)
    \/ \E h \in Handlers : SendValidateCheck(h)
    \/ \E h \in Handlers : ValidateFind(h)
    \/ \E h \in Handlers : ValidateSet(h)
    \/ \E h \in Handlers : SendInsert(h)
    \/ \E h \in Handlers : SendDispatch(h)
    \/ \E h \in Handlers : AcceptDelete(h)
    \/ \E h \in Handlers : AcceptInsert(h)
    \/ \E h \in Handlers : AcceptPublish(h)

SpecFriends == Init /\ [][NextFriends]_vars

\* two connections that stay open, and the friend handlers that publish
\* (at most MaxFanouts of them)
MaxFanouts == 1

NextFanout ==
    \/ \E c \in Conns : \E u \in ConnUsers(c) : RegisterRead(c, u)
    \/ \E c \in Conns : RegisterWrite(c)
    \/ \E c \in Conns : RegisterDone(c)
    \/ \E c \in Conns : SendHello(c)
    \/ \E c \in Conns : SendReady(c)
    \/ \E c \in Conns : WorkerFetch(c)
    \/ \E c \in Conns : WorkerSubscribe(c)
    \/ \E c \in Conns : WorkerSetReady(c)
    \/ \E c \in Conns : Relay(c)
    \/ \E t \in Tasks : ops < MaxFanouts /\ AcceptFriendRequest(t, U1, U2)
    \/ \E t \in Tasks : DispatchFriendCreateFirst(t)
    \/ \E t \in Tasks : DispatchFriendCreateSecond(t)
    \/ \E t \in Tasks : ops < MaxFanouts /\ UnfriendUser(t, U1, U2)
    \/ \E t \in Tasks : DispatchFriendDeleteFirst(t)
    \/ \E t \in Tasks : DispatchFriendDeleteSecond(t)

SpecFanout == Init /\ [][NextFanout]_vars

\* two connections being registered while the user is disconnected
NextRegistry ==
    \/ \E c \in Conns : \E u \in ConnUsers(c) : RegisterRead(c, u)
    \/ \E c \in Conns : RegisterWrite(c)
    \/ \E c \in Conns : RegisterDone(c)
    \/ \E t \in Tasks : \E u \in DisconnectedUsers : DisconnectRead(t, u)
    \/ \E t \in Tasks : DisconnectLoop(t)
    \/ \E t \in Tasks : TaskCloseWrite(t)
    \/ \E t \in Tasks : TaskClosePop(t)
    \/ \E t \in Tasks : TaskCloseAclose(t)
    \/ \E t \in Tasks : TaskCloseEnd(t)
    \/ \E t \in Tasks : DisconnectReturn(t)

SpecRegistry == Init /\ [][NextRegistry]_vars

\* two connections being registered, one of them followed to its end, while
\* the user is disconnected
NextTeardown ==
    \/ \E c \in Conns : \E u \in ConnUsers(c) : RegisterRead(c, u)
    \/ \E c \in Conns : RegisterWrite(c)
    \/ \E c \in Conns : RegisterDone(c)
    \/ \E c \in Followed : SendHello(c)
    \/ \E c \in Followed : SendReady(c)
    \/ \E c \in Followed : ClientDisconnect(c)
    \/ \E c \in Followed : ClientFrame(c)
    \/ \E c \in Followed : CloseBegin(c)
    \/ \E c \in Followed : CloseWrite(c)
    \/ \E c \in Followed : ClosePop(c)
    \/ \E c \in Followed : CloseAclose(c)
    \/ \E c \in Followed : CloseEnd(c)
    \/ \E c \in Followed : WorkerFetch(c)
    \/ \E c \in Followed : WorkerSubscribe(c)
    \/ \E c \in Followed : WorkerSetReady(c)
    \/ \E c \in Followed : ListenerStop(c)
    \/ \E t \in Tasks : \E u \in DisconnectedUsers : DisconnectRead(t, u)
    \/ \E t \in Tasks : DisconnectLoop(t)
    \/ \E t \in Tasks : TaskCloseWrite(t)
    \/ \E t \in Tasks : TaskClosePop(t)
    \/ \E t \in Tasks : TaskCloseAclose(t)
    \/ \E t \in Tasks : TaskCloseEnd(t)
    \/ \E t \in Tasks : DisconnectReturn(t)

SpecTeardown == Init /\ [][NextTeardown]_vars

\* the cache layer on its own, with the clock
SpecCache == Init /\ [][NextCache]_vars

\* connections that authenticate and register while a user is edited
NextAuth ==
    \/ \E c \in Conns : \E token \in RouteTokens : RouteGetCached(c, token)
    \/ \E c \in Conns : RouteFindOne(c)
    \/ \E c \in Conns : RouteSetCached(c)
    \/ \E c \in Conns : RouteStart(c)
    \/ \E c \in Conns : RegisterWrite(c)
    \/ \E c \in Conns : RegisterDone(c)
    \/ \E c \in Followed : SendHello(c)
    \/ \E c \in Followed : WorkerFetch(c)
    \/ \E c \in Followed : WorkerSubscribe(c)
    \/ \E t \in Tasks : \E uid \in EditedUsers : \E kind \in EditKinds :
          EditBegin(t, uid, kind)
    \/ \E t \in Tasks : EditEvict(t)
    \/ \E t \in Tasks : EditUpdate(t)
    \/ \E t \in Tasks : EditStore(t)
    \/ \E t \in Tasks : EditDispatch(t)

SpecAuth == Init /\ [][NextAuth]_vars

\* a caller of fetch_user_authorized, with and without the cache, while a
\* user is edited and time passes
NextLookup ==
    \/ \E c \in Followed : \E token \in RouteTokens : \E cache \in BOOLEAN :
          FetchBegin(c, token, cache)
    \/ \E c \in Followed : RouteFindOne(c)
    \/ \E c \in Followed : RouteSetCached(c)
    \/ \E c \in Followed : FetchReturn(c)
    \/ \E t \in Tasks : \E uid \in EditedUsers : \E kind \in EditKinds :
          EditBegin(t, uid, kind)
    \/ \E t \in Tasks : EditEvict(t)
    \/ \E t \in Tasks : EditUpdate(t)
    \/ \E t \in Tasks : EditStore(t)
    \/ \E t \in Tasks : EditDispatch(t)
    \/ \E d \in TickSteps : Tick(d) /\ UNCHANGED connVars

SpecLookup == Init /\ [][NextLookup]_vars

-----------------------------------------------------------------------------
(* Properties of the cache layer (SpecCache) *)

ExistsText(b) == IF b THEN "True" ELSE "False"

\* C8: a conditional write is a no-op on an absent key and replaces a present
\* entry: after set_user_by_token(user, update=True) the lookup by the user's
\* token returns absent (and the keyspace is untouched) if it returned absent
\* before, and returns the user written if an entry was there; the same holds
\* for set_user_id_exists(id, exists, update=True) and check_user_id_exists.
C8_ConditionalWrite ==
    [][ /\ \A usr \in AuthorizedUsers :
              lastCall' = Call("set_user_by_token", usr, TRUE,
                               GetUserByToken(kv, now, usr.token) # None)
              => IF GetUserByToken(kv, now, usr.token) = None
                 THEN kv' = kv /\ GetUserByToken(kv', now', usr.token) = None
                 ELSE GetUserByToken(kv', now', usr.token) = Some(usr)
        /\ \A uid \in CacheUsers, exists \in BOOLEAN :
              lastCall' = Call("set_user_id_exists", <<uid, exists>>, TRUE,
                               CheckUserIdExists(kv, now, uid) # "None")
              => IF CheckUserIdExists(kv, now, uid) = "None"
                 THEN kv' = kv /\ CheckUserIdExists(kv', now', uid) = "None"
                 ELSE CheckUserIdExists(kv', now', uid) = ExistsText(exists)
      ]_vars

\* a conditional store of a user found no entry under the token, while other
\* entries were in the cache, and the lookup still returns absent
C8_Witness ==
    \E usr \in AuthorizedUsers :
        /\ lastCall = Call("set_user_by_token", usr, TRUE, FALSE)
        /\ GetUserByToken(kv, now, usr.token) = None
        /\ kv # EmptyKv

\* C9: check_user_id_exists is tri-state over time: None for an id that was
\* never stored, exactly the last value stored (True or False) after
\* set_user_id_exists, and None again once UserTTL seconds have passed since
\* that write.
C9_ExistenceTriState ==
    \A uid \in Users :
        CheckUserIdExists(kv, now, uid) =
            IF existLog[uid] = None THEN "None"
            ELSE IF now >= existLog[uid][1].at + UserTTL THEN "None"
            ELSE ExistsText(existLog[uid][1].val)

\* False was stored for one id and is returned; the entry of another id has
\* outlived its TTL and is unknown again
C9_Witness ==
    \E uid, other \in CacheUsers :
        /\ existLog[uid] # None
        /\ ~existLog[uid][1].val
        /\ CheckUserIdExists(kv, now, uid) = "False"
        /\ existLog[other] # None
        /\ now >= existLog[other][1].at + UserTTL
        /\ CheckUserIdExists(kv, now, other) = "None"

-----------------------------------------------------------------------------
(* Properties of the connection registry (SpecRegistry) *)

\* C5: when disconnect_user_connections(U) has made its last call,
\* get_user_sessions(U) returns the empty list, however many session ids the
\* list held and whether or not they had a connection in this process.
C5_DisconnectClears ==
    [][ \A t \in Tasks :
            (task[t].pc # "cleared" /\ task'[t].pc = "cleared")
            => GetUserSessions(kv', now', task'[t].a) = <<>>
      ]_vars

\* a disconnect that listed two sessions has cleared the list; a session
\* registered meanwhile had its id in the list and no connection in the map
C5_Witness ==
    \E t \in Tasks :
        /\ task[t].op = "disconnect"
        /\ task[t].pc = "cleared"
        /\ Len(task[t].listed) = 2
        /\ \E c \in Conns : pc[c] = "reg_done" /\ UidOf(c) = task[t].a
        /\ GetUserSessions(kv, now, task[t].a) = <<>>

\* C6: register_connection followed at once by delete_connection of the same
\* connection leaves get_user_sessions(U) and the session map as they were
\* before the registration.
C6_RegisterDeregisterRoundTrip ==
    \A c \in Conns : \A u \in ConnUsers(c) :
        pc[c] = "idle" =>
            LET sid == MintSessionId(nextSid)
                reg == RegisterConnection(kv, connections, now, c, u, sid)
                del == DeleteConnection(reg.kv, reg.connections, now, u, sid)
            IN  /\ sid \in Range(GetUserSessions(reg.kv, now, u))
                /\ sid \in DOMAIN reg.connections
                /\ del.removed
                /\ GetUserSessions(del.kv, now, u) = GetUserSessions(kv, now, u)
                /\ del.connections = connections

\* a connection is about to register while another session of the same user
\* is in the cached list and in the map
C6_Witness ==
    \E c \in Conns : \E u \in ConnUsers(c) :
        /\ pc[c] = "idle"
        /\ GetUserSessions(kv, now, u) # <<>>
        /\ DOMAIN connections # {}

\* C7 (as claimed): once two registrations of the same user have both
\* completed, with no disconnect of the user started, both session ids are in
\* the cached list.
C7_NoLostRegistration ==
    \A c, d \in Conns :
        (/\ c # d
         /\ pc[c] \notin {"idle", "reg_write"}
         /\ pc[d] \notin {"idle", "reg_write"}
         /\ user[c] = user[d]
         /\ ops = 0)
        => {sessionId[c], sessionId[d]} \subseteq
               Range(GetUserSessions(kv, now, UidOf(c)))

\* C10: delete_connection is idempotent: run a second time for the same
\* connection, delete_user_session_id finds the id gone and returns False
\* without writing, and the cached list and the session map stay as the
\* first run left them.
C10_DeregisterIdempotent ==
    \A c \in Conns :
        sessionId[c] # NoSession =>
            LET first == DeleteConnection(kv, connections, now, UidOf(c), sessionId[c])
                second == DeleteConnection(first.kv, first.connections, now,
                                           UidOf(c), sessionId[c])
            IN  /\ ~second.removed
                /\ second.kv = first.kv
                /\ GetUserSessions(second.kv, now, UidOf(c)) =
                       GetUserSessions(first.kv, now, UidOf(c))
                /\ second.connections = first.connections

\* a registered connection whose id is in the cached list next to another
\* one and in the map, so that the first run removes something
C10_Witness ==
    \E c \in Conns :
        /\ sessionId[c] # NoSession
        /\ sessionId[c] \in Range(GetUserSessions(kv, now, UidOf(c)))
        /\ Len(GetUserSessions(kv, now, UidOf(c))) = 2
        /\ sessionId[c] \in DOMAIN connections

-----------------------------------------------------------------------------
(* Properties of a session (Spec) *)

T_USER_UPDATE == <<"U","S","E","R","_","U","P","D","A","T","E">>
T_USER_DELETE == <<"U","S","E","R","_","D","E","L","E","T","E">>
T_FRIEND_CREATE == <<"F","R","I","E","N","D","_","C","R","E","A","T","E">>
T_FRIEND_DELETE == <<"F","R","I","E","N","D","_","D","E","L","E","T","E">>

\* the operation codes of the packets sent on a connection so far
SentOps(c) == [i \in 1..Len(sent[c]) |-> sent[c][i].op]

\* a session that has sent READY, is in its read loop with its listener
\* running, and on which no close() has started
Active(c) ==
    /\ pc[c] = "recv"
    /\ connected[c]
    /\ wsOpen[c]
    /\ listener[c] = "running"
    /\ \A t \in Tasks : task[t].closing # c

\* the step publishes one message; LastPublished is that message
PublishStep == Len(published') = Len(published) + 1
LastPublished == published'[Len(published')]

\* the step is the listener of c reading one message off its pubsub
RelayStep(c) == inbox[c] # <<>> /\ inbox'[c] = Tail(inbox[c]) /\ psConn'[c]

\* C1: on every connection, whenever publishes arrive during the
\* subscription setup, no EVENT packet is sent before the READY packet.
C1_NoEventBeforeReady ==
    \A c \in Conns : \A i \in 1..Len(sent[c]) :
        sent[c][i].op = EVENT => \E j \in 1..(i - 1) : sent[c][j].op = READY

\* a message was published to a connection that is still setting up its
\* subscriptions and has not sent READY
C1_Witness ==
    \E c \in Conns :
        /\ pc[c] = "wait_ready"
        /\ ~ready[c]
        /\ worker[c].todo # <<>>
        /\ inbox[c] # <<>>
        /\ SentOps(c) = <<HELLO>>

\* C2: READY is sent on a session only after every subscribe call of the
\* session's subscription plan has returned: the readiness event is set only
\* with no call left, and READY is in the packets sent only if the worker
\* has finished.
C2_ReadyAfterSubscriptions ==
    \A c \in Conns :
        /\ ready[c] => worker[c].pc = "done" /\ worker[c].todo = <<>>
        /\ (\E i \in 1..Len(sent[c]) : sent[c][i].op = READY)
           => ready[c] /\ worker[c].pc = "done" /\ worker[c].todo = <<>>

\* READY was sent on a session that subscribed to the channels of a friend
\* as well as to its own
C2_Witness ==
    \E c \in Conns :
        /\ SentOps(c) = <<HELLO, READY>>
        /\ worker[c].friends # <<>>
        /\ Range(SubscriptionPlan(UidOf(c), worker[c].friends)) \subseteq subs[c]

\* C3 (as claimed): for a session of U that has sent READY and is not
\* closed, and every user F who is a friend of U when dispatch_user_update
\* runs for F, the message published reaches the session's pubsub.
C3_EveryCurrentFriend ==
    [][ \A c \in Conns : \A F \in Users :
            (/\ Active(c)
             /\ F \in Range(FetchAllFriends(friends, UidOf(c)))
             /\ PublishStep
             /\ LastPublished.channel = ChannelUserUpdate(F))
            => inbox'[c] = Append(inbox[c], LastPublished)
      ]_vars

\* C3: for a session of U that has sent READY and on which no close() has
\* started, and every user F who was in U's friend list when the session's
\* subscription setup fetched it: a dispatch_user_update for F puts exactly
\* one message, carrying F's user object, on the session's pubsub, and the
\* listener relays that message as exactly one EVENT packet with
\* t = USER_UPDATE and that user object as d.
C3_FriendUpdateRelayed ==
    [][ \A c \in Conns : \A F \in Users :
            /\ (/\ Active(c)
                /\ F \in Range(worker[c].friends)
                /\ PublishStep
                /\ LastPublished.channel = ChannelUserUpdate(F))
               => /\ inbox'[c] = Append(inbox[c], LastPublished)
                  /\ JsonLoads(LastPublished.data).id = F
            /\ (/\ Active(c)
                /\ RelayStep(c)
                /\ Head(inbox[c]).channel = ChannelUserUpdate(F))
               => /\ JsonLoads(Head(inbox[c]).data).id = F
                  /\ sent'[c] = Append(sent[c],
                         WsPacket(EVENT, Some(JsonLoads(Head(inbox[c]).data)),
                                  Some(T_USER_UPDATE)))
      ]_vars

\* a session of a user with a friend has sent, after READY, an EVENT packet
\* with t = USER_UPDATE about that friend
C3_Witness ==
    \E c \in Conns : \E F \in Users :
        /\ Active(c)
        /\ F \in Range(worker[c].friends)
        /\ SentOps(c) = <<HELLO, READY, EVENT>>
        /\ sent[c][3].t = Some(T_USER_UPDATE)
        /\ sent[c][3].d[1].id = F

-----------------------------------------------------------------------------
(* Properties of the friend events (SpecFanout) *)

FriendChannel(kind, uid) ==
    IF kind = "friend_create" THEN ChannelFriendCreate(uid) ELSE ChannelFriendDelete(uid)
FriendEventName(kind) ==
    IF kind = "friend_create" THEN T_FRIEND_CREATE ELSE T_FRIEND_DELETE

\* what a publish of message on the channel of user uid does to the pubsub
\* of connection c: one more message for an active session of uid, nothing
\* for a connection of another user
Received(c, uid, message) ==
    IF user[c] = None \/ UidOf(c) # uid THEN inbox'[c] = inbox[c]
    ELSE Active(c) => inbox'[c] = Append(inbox[c], message)

\* C4: dispatch_friend_create(A, B) publishes exactly twice, first on A's
\* friend_create channel with payload {user_id: B}, then on B's with payload
\* {user_id: A}; each publish adds exactly one message to every active
\* session of the user whose channel it is and none to the connections of
\* any other user, and the listener relays such a message as one EVENT
\* packet with t = FRIEND_CREATE.  dispatch_friend_delete does the same with
\* the friend_delete channels and t = FRIEND_DELETE.
C4_SymmetricFanout ==
    [][ /\ \A t \in Tasks : \A kind \in {"friend_create", "friend_delete"} :
              LET a == task[t].a
                  b == task[t].b
                  first == Message(FriendChannel(kind, a), UserIdPayload(b))
                  second == Message(FriendChannel(kind, b), UserIdPayload(a))
              IN  /\ (task[t].op = kind /\ task[t].pc = "pub1" /\ task'[t] # task[t])
                     => /\ task'[t].op = kind /\ task'[t].pc = "pub2"
                        /\ published' = Append(published, first)
                        /\ \A c \in Conns : Received(c, a, first)
                  /\ (task[t].op = kind /\ task[t].pc = "pub2" /\ task'[t] # task[t])
                     => /\ task'[t] = IdleTask
                        /\ published' = Append(published, second)
                        /\ \A c \in Conns : Received(c, b, second)
        /\ \A c \in Conns : \A kind \in {"friend_create", "friend_delete"} :
              (/\ Active(c)
               /\ RelayStep(c)
               /\ Head(inbox[c]).channel = FriendChannel(kind, UidOf(c)))
              => sent'[c] = Append(sent[c],
                     WsPacket(EVENT, Some(JsonLoads(Head(inbox[c]).data)),
                              Some(FriendEventName(kind))))
      ]_vars

\* after one dispatch_friend_create(A, B), a session of A has been sent
\* FRIEND_CREATE with {user_id: B} and a session of B FRIEND_CREATE with
\* {user_id: A}, each once
C4_Witness ==
    \E c, d \in Conns :
        /\ Active(c) /\ Active(d)
        /\ UidOf(c) = U1 /\ UidOf(d) = U2
        /\ Len(published) = 2
        /\ sent[c] = <<HelloPacket, ReadyPacket(UserOf(c), sessionId[c]),
                       WsPacket(EVENT, Some([user_id |-> U2]), Some(T_FRIEND_CREATE))>>
        /\ sent[d] = <<HelloPacket, ReadyPacket(UserOf(d), sessionId[d]),
                       WsPacket(EVENT, Some([user_id |-> U1]), Some(T_FRIEND_CREATE))>>

-----------------------------------------------------------------------------
(* Properties of teardown (Spec, SpecTeardown) *)

\* the step takes the session of c out of the session map
LeavesMap(c) ==
    /\ sessionId[c] # NoSession
    /\ sessionId[c] \in DOMAIN connections
    /\ sessionId[c] \notin DOMAIN connections'

\* C11 (as claimed): teardown cancels the relay loop, then unsubscribes from
\* every channel, then releases the pubsub, and only then deregisters: when
\* the session leaves the session map its listener is no longer running,
\* it has no subscription left and its pubsub holds no connection.
C11_DeregisterLast ==
    [][ \A c \in Conns :
            LeavesMap(c) => /\ listener[c] # "running"
                            /\ subs[c] = {}
                            /\ ~psConn[c]
      ]_vars

\* the step is one of close() run by the connection's own task
OwnCloseStep(c) ==
    /\ pc[c] \in {"cl_read", "cl_written", "cl_unsub", "cl_released"}
    /\ pc'[c] # pc[c]

\* C12 (as claimed): a close() that runs on a session after another close()
\* of the same session has completed changes neither the cached session
\* list of the user nor the session map, also when the two overlapped.
C12_SecondCloseChangesNothing ==
    [][ \A c \in Conns :
            (OwnCloseStep(c) /\ ~connected[c])
            => /\ GetUserSessions(kv', now', UidOf(c)) =
                      GetUserSessions(kv, now, UidOf(c))
               /\ connections' = connections
      ]_vars

-----------------------------------------------------------------------------
(* Properties of failures (Spec) *)

\* C13 (as claimed): when the subscription setup of a session has failed,
\* the handshake is aborted: READY is never sent, and the session is not
\* left waiting for the readiness event, which nothing will set any more,
\* with no step of its own to take.
C13_SetupFailureAborts ==
    \A c \in Conns :
        worker[c].pc = "failed" =>
            /\ \A i \in 1..Len(sent[c]) : sent[c][i].op # READY
            /\ pc[c] = "wait_ready" => ENABLED SendReady(c)

\* C14 (as claimed): a failure while relaying one bus message does not end
\* the relay loop: a listener that is running on a connected pubsub is never
\* ended by a relay step (it ends only by cancellation, by _connected turning
\* false, or because the pubsub was released).
C14_RelayFailureKeepsLoop ==
    [][ \A c \in Conns :
            (listener[c] = "running" /\ psConn[c]) => listener'[c] # "crashed"
      ]_vars

-----------------------------------------------------------------------------
(* Properties of the subscription set (Spec) *)

\* the friends of uid: the other end of every edge that has uid at one end
FriendsOf(edges, uid) ==
    {e[2] : e \in {x \in Range(edges) : x[1] = uid}}
    \cup {e[1] : e \in {x \in Range(edges) : x[2] = uid}}

\* the channels the claim lists for user uid with friend set fs
ClaimedChannels(uid, fs) ==
    {ChannelUserUpdate(f) : f \in fs} \cup {ChannelUserDelete(f) : f \in fs}
    \cup {ChannelFriendCreate(uid), ChannelFriendDelete(uid),
          ChannelFriendRequestReceive(uid),
          ChannelMessageCreate(DIRECT, uid), ChannelMessageUpdate(DIRECT, uid),
          ChannelMessageDelete(DIRECT, uid)}

-----------------------------------------------------------------------------
(* Properties of the session lifecycle (Spec) *)

\* the session id of c is in the cached list of its user or in the session map
Registered(c) ==
    /\ sessionId[c] # NoSession
    /\ \/ sessionId[c] \in DOMAIN connections
       \/ sessionId[c] \in Range(GetUserSessions(kv, now, UidOf(c)))

\* C16 (as claimed): a session id is removed from the cached list and from
\* the session map once its client has disconnected, wherever in the
\* session's life that happens: the task that serves a session whose client
\* has gone never ends with the session id still registered.
C16_DisconnectDeregisters ==
    \A c \in Conns :
        (pc[c] \in {"crashed", "done"} /\ ~wsOpen[c]) => ~Registered(c)

\* the steps the task that runs WSClient.start can take without a frame from
\* its client
OwnTaskStep(c) ==
    \/ RegisterWrite(c) \/ RegisterDone(c) \/ SendHello(c) \/ SendReady(c)
    \/ CloseBegin(c) \/ CloseWrite(c) \/ ClosePop(c) \/ CloseAclose(c) \/ CloseEnd(c)

\* C17 (as claimed): once a close() run by disconnect_user_connections has
\* completed on a streaming session, its read loop ends without a further
\* frame or disconnect from the client: the task is not left in receive_text
\* on an open socket with no step of its own to take.
C17_ForcedCloseUnblocksRead ==
    \A c \in Conns :
        (pc[c] = "recv" /\ ~connected[c] /\ wsOpen[c] /\ listener[c] = "cancelled")
        => ENABLED OwnTaskStep(c)

-----------------------------------------------------------------------------
(* Properties of disconnect_user_connections (SpecTeardown) *)

\* the task is at the top of its loop over the listed session ids
AtLoop(t) == task[t].op = "disconnect" /\ task[t].pc \in {"loop", "cl_released"}

\* the positions of the ids still to visit that have a connection in the map
Present(t) == {i \in 1..Len(task[t].todo) : task[t].todo[i] \in DOMAIN connections}

\* what a step of the task leaves alone on connection c
Untouched(c) ==
    /\ connected'[c] = connected[c]
    /\ listener'[c] = listener[c]
    /\ subs'[c] = subs[c]
    /\ psConn'[c] = psConn[c]
    /\ (sessionId[c] \in DOMAIN connections) <=> (sessionId[c] \in DOMAIN connections')
    /\ GetUserSessions(kv', now', UidOf(c)) = GetUserSessions(kv, now, UidOf(c))

\* C18: disconnect_user_connections(U) visits the session ids of U's cached
\* list in order; from the top of its loop it passes over the ids that have
\* no connection in the session map, without failing, and starts close() on
\* the first id that has one, and clears the list when none is left; the
\* close() it has run leaves that connection closed and out of the map; and
\* no step it takes changes a connection of another user, which stays
\* connected, subscribed, in the map and in its user's cached list.
C18_DisconnectAllFrame ==
    [][ \A t \in Tasks :
            /\ (task[t].op = "idle" /\ task'[t].op = "disconnect")
               => task'[t].todo = GetUserSessions(kv, now, task'[t].a)
            /\ (AtLoop(t) /\ task'[t] # task[t])
               => /\ IF Present(t) = {}
                     THEN task'[t].pc = "cleared"
                     ELSE LET i == CHOOSE x \in Present(t) :
                                       \A y \in Present(t) : x <= y
                          IN  /\ task'[t].pc = "cl_read"
                              /\ task'[t].closing = connections[task[t].todo[i]]
                              /\ UidOf(task'[t].closing) = task[t].a
                              /\ task'[t].todo =
                                     SubSeq(task[t].todo, i + 1, Len(task[t].todo))
                  /\ task[t].pc = "cl_released"
                     => /\ ~connected'[task[t].closing]
                        /\ sessionId[task[t].closing] \notin DOMAIN connections'
            /\ (task[t].op = "disconnect" /\ task'[t] # task[t])
               => \A c \in Conns :
                      (user[c] # None /\ UidOf(c) # task[t].a) => Untouched(c)
      ]_vars

\* disconnect_user_connections(U1) has closed the connection of U1 and cleared
\* the list, while a session of another user is streaming, subscribed and
\* registered
C18_Witness ==
    \E t \in Tasks : \E c, d \in Conns :
        /\ task[t].op = "disconnect"
        /\ task[t].pc = "cleared"
        /\ task[t].listed = <<sessionId[c]>>
        /\ UidOf(c) = task[t].a
        /\ ~connected[c]
        /\ sessionId[c] \notin DOMAIN connections
        /\ user[d] # None
        /\ UidOf(d) # task[t].a
        /\ pc[d] = "recv"
        /\ connected[d]
        /\ subs[d] # {}
        /\ sessionId[d] \in DOMAIN connections
        /\ sessionId[d] \in Range(GetUserSessions(kv, now, UidOf(d)))

-----------------------------------------------------------------------------
(* Properties of authorization (SpecAuth) *)

\* C19: a connection whose token is neither in the cache nor in the store is
\* rejected, and a rejected connection never gets anything: rejecting it
\* mints no session id and changes neither the cache nor the session map, and
\* the connection has no session id, no user, no entry in the session map,
\* no subscription task, no subscription and no packet sent.
C19_UnresolvedTokenRejected ==
    [][ \A c \in Conns :
            /\ (/\ auth[c].pc = "db"
                /\ auth'[c].pc # "db"
                /\ FindOneByToken(db, auth[c].token) = None)
               => auth'[c].pc = "rejected"
            /\ (auth[c].pc # "rejected" /\ auth'[c].pc = "rejected")
               => /\ nextSid' = nextSid
                  /\ kv' = kv
                  /\ connections' = connections
            /\ auth'[c].pc = "rejected"
               => /\ pc'[c] = "idle"
                  /\ user'[c] = None
                  /\ sessionId'[c] = NoSession
                  /\ local'[c].sid = NoSession
                  /\ \A sid \in DOMAIN connections' : connections'[sid] # c
                  /\ worker'[c].pc = "none"
                  /\ subs'[c] = {}
                  /\ ~psConn'[c]
                  /\ sent'[c] = <<>>
      ]_vars

\* a connection that presented an unknown token was rejected after a cache
\* miss and a store miss, while another connection is registered and has
\* been sent HELLO
C19_Witness ==
    \E c, d \in Conns :
        /\ auth[c].pc = "rejected"
        /\ auth[c].token = BadToken
        /\ auth[c].user = None
        /\ auth[d].pc = "started"
        /\ sessionId[d] \in DOMAIN connections
        /\ sent[d] = <<HelloPacket>>

\* no edit_user and no fetch_user_authorized is between two of its steps
Quiescent ==
    /\ \A t \in Tasks : task[t].op = "idle"
    /\ \A c \in Conns : auth[c].pc \notin {"db", "set"}

\* C20 (as claimed): when no edit_user and no fetch_user_authorized is under
\* way, a token that no stored user has any more (a rotated one) has no
\* entry in the cache: get_user_by_token of it returns None.
C20_RotatedTokenNotCached ==
    Quiescent =>
        \A token \in RouteTokens :
            FindOneByToken(db, token) = None => GetUserByToken(kv, now, token) = None

-----------------------------------------------------------------------------
(* Properties of the cache-aside lookup (SpecLookup) *)

\* C21: fetch_user_authorized(token, cache). With the cache on, a hit of
\* get_user_by_token is returned as it is, after that one call; a miss is
\* followed by a read of the store; a user found there is written to the
\* cache, where get_user_by_token finds it until its TTL has run out, and is
\* returned; no user found is returned as None with nothing written. With
\* the cache off the result is what the store holds and the only call made is
\* the read of the store. Only the populating write changes the cache.
C21_CacheAsideLookup ==
    [][ \A c \in Conns :
            LET a == auth[c]
                b == auth'[c]
            IN  /\ (a.pc = "idle" /\ b.pc # "idle" /\ b.cache)
                   => /\ kv' = kv
                      /\ b.io = <<"get">>
                      /\ IF GetUserByToken(kv, now, b.token) # None
                         THEN b.pc = "ok" /\ b.user = GetUserByToken(kv, now, b.token)
                         ELSE b.pc = "db"
                /\ (a.pc = "idle" /\ b.pc # "idle" /\ ~b.cache)
                   => /\ kv' = kv
                      /\ b.io = <<"find_one">>
                      /\ b.user = FindOneByToken(db, b.token)
                      /\ b.pc = IF b.user # None THEN "ok" ELSE "rejected"
                /\ (a.pc = "db" /\ b.pc # "db")
                   => /\ kv' = kv
                      /\ b.io = <<"get", "find_one">>
                      /\ b.user = FindOneByToken(db, a.token)
                      /\ b.pc = IF b.user # None THEN "set" ELSE "rejected"
                /\ (a.pc = "set" /\ b.pc # "set")
                   => /\ b.pc = "ok"
                      /\ b.user = a.user
                      /\ b.io = <<"get", "find_one", "set">>
                      /\ \A t \in TimePoints(MaxTicks) :
                             (now <= t /\ t < now + UserTTL)
                             => GetUserByToken(kv', t, a.token) = a.user
      ]_vars

\* before any edit, and after time has passed, a lookup was answered from
\* the cache alone: an earlier lookup that missed had populated it
C21_Witness ==
    \E c \in Conns :
        /\ ops = 0
        /\ now > 0
        /\ auth[c].pc = "ok"
        /\ auth[c].io = <<"get">>
        /\ auth[c].user = Some(db[U1])

-----------------------------------------------------------------------------
(* Properties of the packet sequence (Spec) *)

\* C22: on every connection the packets sent are, in order: HELLO (op 0
\* without d and t) first and only once; READY (op 1) at most once, with the
\* session id that register_connection minted for the connection; and after
\* READY only EVENT packets (op 2), each with d and t.
C22_PacketSequence ==
    \A c \in Conns :
        LET p == sent[c]
        IN  /\ Len(p) >= 1 => p[1] = [op |-> HELLO, d |-> None, t |-> None]
            /\ \A i \in 2..Len(p) : p[i].op # HELLO
            /\ \A i, j \in 1..Len(p) : (p[i].op = READY /\ p[j].op = READY) => i = j
            /\ \A i \in 1..Len(p) :
                   p[i].op = READY
                   => /\ p[i].d # None
                      /\ p[i].d[1].session_id = local[c].sid
                      /\ p[i].d[1].session_id = sessionId[c]
                      /\ sessionId[c] # NoSession
                      /\ \A j \in (i + 1)..Len(p) :
                             p[j].op = EVENT /\ p[j].d # None /\ p[j].t # None

\* a connection was sent HELLO, READY and two EVENT packets
C22_Witness ==
    \E c \in Conns :
        /\ Len(sent[c]) = 4
        /\ SentOps(c) = <<HELLO, READY, EVENT, EVENT>>

-----------------------------------------------------------------------------
(* Properties of the session ids (SpecTeardown) *)

\* every session id that a connection holds, the session map has as a key,
\* or a cached session list contains
KnownIds ==
    {local[c].sid : c \in Conns} \cup {sessionId[c] : c \in Conns}
    \cup DOMAIN connections
    \cup UNION {Range(GetUserSessions(kv, now, u)) : u \in Users}

\* C23: a register call mints an id that no connection, map key or cached
\* list holds or ever held (every id in use is one of the ids minted so far,
\* and a new id is none of them, also after sessions were deleted); two
\* connections never hold the same id; each key of the session map is the id
\* of the one connection it maps to, so no connection is under two keys.
C23_SessionIdsUnique ==
    [][ /\ \A c \in Conns :
               local'[c].sid # local[c].sid
               => /\ local'[c].sid \notin 0..nextSid
                  /\ local'[c].sid \in 1..nextSid'
        /\ KnownIds \subseteq 0..nextSid
        /\ KnownIds' \subseteq 0..nextSid'
        /\ \A c, d \in Conns :
               (c # d /\ local'[c].sid # NoSession) => local'[c].sid # local'[d].sid
        /\ \A sid \in DOMAIN connections' :
               /\ sid # NoSession
               /\ sessionId'[connections'[sid]] = sid
      ]_vars

\* a connection registered after the session of another one was deleted, and
\* holds a different id
C23_Witness ==
    \E c, d \in Conns :
        /\ pc[d] = "done"
        /\ sessionId[d] # NoSession
        /\ sessionId[d] \notin DOMAIN connections
        /\ sessionId[c] \in DOMAIN connections
        /\ sessionId[c] > sessionId[d]

-----------------------------------------------------------------------------
(* Properties of the subscription set over time (Spec) *)

\* the step sends an EVENT packet named USER_UPDATE on connection c
SendsUserUpdate(c) ==
    /\ Len(sent'[c]) = Len(sent[c]) + 1
    /\ sent'[c][Len(sent'[c])].op = EVENT
    /\ sent'[c][Len(sent'[c])].t = Some(T_USER_UPDATE)

\* C24: the subscription set is not kept live. A step that changes the
\* friends collection changes no subscription; once the setup of a session
\* has completed its set of channels stays as it is until close() empties
\* it; so a session that is still registered is subscribed to user_update of
\* exactly the friends its setup fetched, whoever the friends are now, and a
\* USER_UPDATE event it is sent is about one of those.
C24_SubscriptionsNotLive ==
    [][ \A c \in Conns :
            /\ friends' # friends => subs'[c] = subs[c]
            /\ worker[c].pc = "done"
               => \/ subs'[c] = subs[c]
                  \/ subs'[c] = {} /\ sessionId[c] \notin DOMAIN connections'
            /\ (worker[c].pc = "done" /\ sessionId[c] \in DOMAIN connections)
               => \A f \in Users :
                      ChannelUserUpdate(f) \in subs[c] <=> f \in Range(worker[c].friends)
            /\ (worker[c].pc = "done" /\ SendsUserUpdate(c))
               => sent'[c][Len(sent'[c])].d[1].id \in Range(worker[c].friends)
      ]_vars

\* a streaming session was sent FRIEND_CREATE for a friend made after its
\* setup; the friend was then updated, the update was published and the
\* session, which is not subscribed to it, was sent nothing
C24_Witness ==
    \E c \in Conns : \E f \in Users :
        /\ Active(c)
        /\ worker[c].pc = "done"
        /\ f \in FriendsOf(friends, UidOf(c))
        /\ f \notin Range(worker[c].friends)
        /\ Len(published) = 3
        /\ published[3].channel = ChannelUserUpdate(f)
        /\ inbox[c] = <<>>
        /\ Len(sent[c]) = 3
        /\ sent[c][3].t = Some(T_FRIEND_CREATE)

-----------------------------------------------------------------------------
(* Properties of self-subscription (SpecEvents) *)

\* C25: no friendship joins a user with themselves, a session of user U is
\* never subscribed to user_update(U) or user_delete(U), and no USER_UPDATE
\* or USER_DELETE event sent on it is about U.
C25_NoSelfSubscription ==
    /\ \A i \in 1..Len(friends) : friends[i][1] # friends[i][2]
    /\ \A c \in Conns :
           user[c] # None =>
               /\ ChannelUserUpdate(UidOf(c)) \notin subs[c]
               /\ ChannelUserDelete(UidOf(c)) \notin subs[c]
               /\ \A i \in 1..Len(sent[c]) :
                      /\ sent[c][i].t = Some(T_USER_UPDATE)
                         => sent[c][i].d[1].id # UidOf(c)
                      /\ sent[c][i].t = Some(T_USER_DELETE)
                         => sent[c][i].d[1].user_id # UidOf(c)

\* a streaming session is subscribed to the channels of its friend; the
\* deletion of its own user was published and it was sent nothing
C25_Witness ==
    \E c \in Conns :
        /\ Active(c)
        /\ Len(worker[c].friends) = 1
        /\ ChannelUserDelete(worker[c].friends[1]) \in subs[c]
        /\ Len(published) = 3
        /\ published[3].channel = ChannelUserDelete(UidOf(c))
        /\ inbox[c] = <<>>
        /\ SentOps(c) = <<HELLO, READY>>

-----------------------------------------------------------------------------
(* Properties of the event names (SpecEvents) *)

T_FRIEND_REQUEST_RECEIVE ==
    <<"F","R","I","E","N","D","_","R","E","Q","U","E","S","T","_","R","E","C","E","I","V","E">>
T_MESSAGE_CREATE ==
    <<"M","E","S","S","A","G","E","_","C","R","E","A","T","E">>
T_MESSAGE_UPDATE ==
    <<"M","E","S","S","A","G","E","_","U","P","D","A","T","E">>
T_MESSAGE_DELETE ==
    <<"M","E","S","S","A","G","E","_","D","E","L","E","T","E">>

\* the categories of the taxonomy with the event name of each
Taxonomy ==
    {<<S_user_update, T_USER_UPDATE>>, <<S_user_delete, T_USER_DELETE>>,
     <<S_friend_create, T_FRIEND_CREATE>>, <<S_friend_delete, T_FRIEND_DELETE>>,
     <<S_friend_request_receive, T_FRIEND_REQUEST_RECEIVE>>,
     <<S_message_create, T_MESSAGE_CREATE>>, <<S_message_update, T_MESSAGE_UPDATE>>,
     <<S_message_delete, T_MESSAGE_DELETE>>}

\* the values that follow the category in a channel name
ChannelValues == {<<u>> : u \in Users} \cup {<<DestTypeStr(DIRECT), u>> : u \in Users}

\* the channel name without its first n characters, up to the first colon
AfterPrefix(channel, n) == SplitFirst(SubSeq(channel, n + 1, Len(channel)), ":")

\* every channel of the taxonomy gives the event name of its category
TaxonomyNames ==
    \A x \in Taxonomy : \A values \in ChannelValues :
        LET channel == EventApplyScheme(x[1], values)
        IN  /\ EventName(channel) = x[2]
            /\ EventName(channel) = Upper(AfterPrefix(channel, 6))
            /\ Len(EventName(channel)) = Len(x[1])

\* C26: for every category of the taxonomy and every subject, the event name
\* derived from the channel "event_<category>:<values>" is the category in
\* upper case, with exactly the six characters of "event_" removed; and the
\* t of every EVENT packet sent is the name derived that way from the
\* channel of a published message.
C26_EventNameFromChannel ==
    /\ TaxonomyNames
    /\ \A c \in Conns : \A i \in 1..Len(sent[c]) :
           sent[c][i].op = EVENT
           => \E k \in 1..Len(published) :
                  sent[c][i].t = Some(Upper(AfterPrefix(published[k].channel, 6)))

\* a session was sent USER_DELETE for a message published on a friend's
\* event_user_delete channel
C26_Witness ==
    \E c \in Conns : \E k \in 1..Len(published) :
        /\ Len(sent[c]) = 3
        /\ sent[c][3].t = Some(T_USER_DELETE)
        /\ published[k].channel = ChannelUserDelete(sent[c][3].d[1].user_id)
        /\ sent[c][3].d[1].user_id \in Range(worker[c].friends)

-----------------------------------------------------------------------------
(* Properties of delivery (SpecFanout) *)

\* every (category, subject) pair of the taxonomy with its channel name
NamedChannels ==
    {<<x[1], values, EventApplyScheme(x[1], values)>> :
        x \in Taxonomy, values \in ChannelValues}

\* distinct (category, subject) pairs have distinct channel names
ChannelNamesDistinct ==
    \A p, q \in NamedChannels : p[3] = q[3] => (p[1] = q[1] /\ p[2] = q[2])

\* the last packet sent on c by the step, when the step sends one
LastSent(c) == sent'[c][Len(sent'[c])]

\* C27: a message reaches the pubsub of a session only when it is published
\* on a channel the session is subscribed to; an EVENT packet is sent only
\* for the message read from that pubsub, with the name of its channel and
\* its payload; so every EVENT a session was sent is a published message on
\* one of the channels its setup subscribes to (looked at again whenever a
\* packet is sent or the setup moves on); and distinct (category, subject)
\* pairs have distinct channel names.
C27_OnlySubscribedDelivered ==
    [][ /\ ChannelNamesDistinct
        /\ \A c \in Conns :
               /\ Len(inbox'[c]) > Len(inbox[c])
                  => /\ PublishStep
                     /\ inbox'[c] = Append(inbox[c], LastPublished)
                     /\ LastPublished.channel \in subs[c]
               /\ (Len(sent'[c]) > Len(sent[c]) /\ LastSent(c).op = EVENT)
                  => /\ inbox[c] # <<>>
                     /\ inbox'[c] = Tail(inbox[c])
                     /\ LastSent(c).d = Some(JsonLoads(Head(inbox[c]).data))
                     /\ LastSent(c).t = Some(Upper(AfterPrefix(Head(inbox[c]).channel, 6)))
               /\ \A i \in 1..Len(sent'[c]) :
                      (/\ sent'[c] # sent[c] \/ worker'[c] # worker[c]
                       /\ sent'[c][i].op = EVENT)
                      => \E k \in 1..Len(published') :
                             /\ published'[k].channel \in
                                    ClaimedChannels(UidOf(c), Range(worker'[c].friends))
                             /\ sent'[c][i].d = Some(JsonLoads(published'[k].data))
                             /\ sent'[c][i].t =
                                    Some(Upper(AfterPrefix(published'[k].channel, 6)))
      ]_vars

\* two messages were published, one on a channel of a streaming session and
\* one on a channel it is not subscribed to; it was sent the first only
C27_Witness ==
    \E c \in Conns :
        /\ Active(c)
        /\ Len(published) = 2
        /\ published[1].channel \in subs[c]
        /\ published[2].channel \notin subs[c]
        /\ inbox[c] = <<>>
        /\ Len(sent[c]) = 3
        /\ sent[c][3].d = Some(JsonLoads(published[1].data))

-----------------------------------------------------------------------------
(* Properties of the TTLs (SpecRegistry) *)

\* C28 (as claimed): every entry in the cache has a deadline, at most the TTL
\* away: whether it is a user by token, an existence flag or a session list.
C28_EveryEntryHasTTL ==
    \A k \in DOMAIN kv :
        /\ kv[k].exp # NoExpiry
        /\ kv[k].exp <= now + UserTTL

\* no register_connection, delete_connection or disconnect_user_connections
\* is between two of its steps
RegistryAtRest ==
    /\ \A c \in Conns :
          pc[c] \notin {"reg_write", "reg_done", "cl_read", "cl_written",
                        "cl_unsub", "cl_released"}
    /\ \A t \in Tasks : task[t].op = "idle"

\* C29 (as claimed): when no register, deregister or disconnect_all is in
\* progress, a session id is a key of the session map if and only if it is
\* in the cached session list of its connection's user.
C29_ListMirrorsRegistry ==
    RegistryAtRest =>
        /\ \A sid \in DOMAIN connections :
              sid \in Range(GetUserSessions(kv, now, UidOf(connections[sid])))
        /\ \A u \in Users : \A sid \in Range(GetUserSessions(kv, now, u)) :
              sid \in DOMAIN connections /\ UidOf(connections[sid]) = u

-----------------------------------------------------------------------------
(* Properties of the session's states (Spec) *)

\* close() has run to its end for the session of c
Closed(c) == sessionId[c] # NoSession /\ ~connected[c]

\* C30 (as claimed): CLOSED is terminal: once close() has run for a session,
\* no packet is sent on it and no subscription is made for it, a forced
\* close that arrives while the session is still subscribing included.
C30_ClosedIsTerminal ==
    [][\A c \in Conns :
          Closed(c) => /\ sent'[c] = sent[c]
                       /\ subs'[c] \subseteq subs[c]]_vars

-----------------------------------------------------------------------------
(* Properties of validate_user_exists (SpecExistence) *)

\* C31: validate_user_exists asks the store exactly when check_user_id_exists
\* returned None, and then caches what the store answered; a call that found
\* a cached True or False never reaches the store; and the call ends with
\* not-found exactly when the cached or the fetched answer is false.
C31_ValidateUserExists ==
    [][\A h \in Handlers :
          LET before == handler[h]
              after == handler'[h]
          IN  /\ (before.op = "idle" /\ after.op = "validate")
                 => /\ after.cached = CheckUserIdExists(kv, now, after.b)
                    /\ (after.pc = "val_find") <=> (after.cached = "None")
                    /\ (after.pc = "val_end") <=> (after.cached # "None")
                    /\ UNCHANGED <<kv, db>>
              /\ (before.op = "validate" /\ after.pc \in {"val_find", "val_set"})
                 => after.cached = "None"
              /\ (before.pc = "val_find" /\ after.pc = "val_set")
                 => /\ after.found = (before.b \in DOMAIN db)
                    /\ UNCHANGED <<kv, db>>
              /\ (before.pc = "val_set" /\ after.pc = "val_end")
                 => /\ CheckUserIdExists(kv', now, before.b) =
                          (IF before.found THEN "True" ELSE "False")
                    /\ after.found = before.found
              /\ (before.op = "validate" /\ before.pc = "val_end" /\ after.op = "idle")
                 => (after.out = "not_found")
                    <=> \/ before.cached = "False"
                        \/ before.cached = "None" /\ ~before.found
      ]_vars

\* one call asked the store, cached that the user exists and returned; the
\* next one found the cached True and asked nothing
C31_Witness ==
    /\ handler["h1"].op = "validate"
    /\ handler["h1"].pc = "val_end"
    /\ handler["h1"].cached = "True"
    /\ handler["h2"].out = "ok"
    /\ existLog[U1] # None

-----------------------------------------------------------------------------
(* Properties of unregistered sessions (SpecSession) *)

\* C32: delete_connection of a connection whose registration has not
\* completed (its session id is still None) raises RuntimeError, where it
\* reads the session id, and leaves the cached session lists and the session
\* map as they were; it never goes on to the cache.
C32_UnregisteredRaises ==
    [][\A h \in Handlers : \A c \in Conns :
          (/\ handler[h].op = "idle"
           /\ handler'[h] # handler[h]
           /\ handler'[h].op = "delete_connection" \/ handler'[h].out # "none"
           /\ handler'[h].a = Some(c)
           /\ sessionId[c] = NoSession)
          => /\ handler'[h].op = "idle"
             /\ handler'[h].out = "RuntimeError"
             /\ UNCHANGED <<kv, connections>>
      ]_vars

\* delete_connection raised for a connection that had written its session id
\* to the cached list and was not yet in the session map
C32_Witness ==
    \E c \in Conns :
        /\ handler["h1"].out = "RuntimeError"
        /\ handler["h1"].a = Some(c)
        /\ pc[c] = "reg_done"
        /\ local[c].sid \in Range(GetUserSessions(kv, now, UidOf(c)))
        /\ connections = [x \in {} |-> "none"]

-----------------------------------------------------------------------------
(* Properties of account deletion (SpecAccounts) *)

\* delete_user(uid) has run to its end
Deleted(uid) == uid \notin DOMAIN db /\ \A t \in Tasks : task[t].op = "idle"

\* C33 (as claimed): once delete_user(U) has completed, no connection of U
\* is in the session map or has a running listener, whenever the token of
\* the connection was resolved before the deletion.
C33_NoSessionAfterDelete ==
    \A c \in Conns :
        (user[c] # None /\ Deleted(UidOf(c)))
        => /\ sessionId[c] \notin DOMAIN connections
           /\ listener[c] # "running"

-----------------------------------------------------------------------------
(* Properties of friend requests (SpecFriends) *)

\* C34 (as claimed): the friends collection never holds the edges
\* (first_user=A, second_user=B) and (first_user=B, second_user=A) together,
\* however the send_accept_friend_request calls of A and of B interleave.
C34_NoBothOrientations ==
    \A a, b \in Users :
        ~(<<a, b>> \in Range(friends) /\ <<b, a>> \in Range(friends))

\* C38 (as claimed): when A sends a friend request to B, the step that
\* publishes it publishes exactly one message, on B's friend_request_receive
\* channel, whose payload is the request as its recipient sees it: user_id is
\* A and incoming is true.
C38_RequestEventForRecipient ==
    [][\A h \in Handlers :
          (handler[h].pc = "req_dispatch" /\ handler'[h] # handler[h])
          => /\ Len(published') = Len(published) + 1
             /\ published'[Len(published')] =
                   Message(ChannelFriendRequestReceive(handler[h].b),
                           JsonDumps([user_id |-> handler[h].a,
                                      incoming |-> TRUE]))]_vars

-----------------------------------------------------------------------------
(* Properties of the event payloads (Spec) *)

\* C35 (as claimed): no EVENT packet sent to a session of user U carries the
\* password or the token of a different user V; the USER_UPDATE payload of V
\* has V's public profile fields only.
C35_NoForeignCredentials ==
    \A c \in Conns :
        user[c] # None =>
            \A i \in 1..Len(sent[c]) :
                sent[c][i].op = EVENT =>
                    LET d == sent[c][i].d[1]
                    IN  \A v \in Users \ {UidOf(c)} :
                            /\ ~("password" \in DOMAIN d /\ d.password = PwdOf(v))
                            /\ ~("token" \in DOMAIN d /\ d.token = TokOf(v))

-----------------------------------------------------------------------------
(* Properties of the existence cache under deletion (SpecExistence) *)

\* C36 (as claimed): once delete_user(U) has completed and no
\* validate_user_exists call is still running, check_user_id_exists(U)
\* answers False or None, never True.
C36_DeletedNeverCachedLive ==
    \A u \in ValidatedUsers :
        (Deleted(u) /\ \A h \in Handlers : handler[h].op = "idle")
        => CheckUserIdExists(kv, now, u) # "True"

-----------------------------------------------------------------------------
(* Properties of the token cache under a profile edit (SpecLookup) *)

\* C37 (as claimed): while the user's token has not been rotated by a password
\* change, once every edit_user and every fetch_user_authorized call has
\* completed, the entry cached under the token is absent or is the record the
\* store holds after the edit, never the record from before it.
C37_CacheHoldsPostEditRecord ==
    Quiescent =>
        \A u \in EditedUsers :
            (u \in DOMAIN db /\ db[u].token = TokOf(u))
            => GetUserByToken(kv, now, TokOf(u)) \in {None, Some(db[u])}

-----------------------------------------------------------------------------
(* Properties of delete_user for an absent id (SpecAccounts) *)

\* C39: a delete_user call whose id has no record in the store changes
\* nothing: from its find_one_and_delete to its return no cache key changes
\* (the session list included), no connection is closed or leaves the map, and
\* nothing is published; the step after the find_one_and_delete is the return.
C39_AbsentDeleteNoEffect ==
    [][\A t \in Tasks :
          /\ (/\ task[t].op = "idle"
              /\ task'[t].op = "delete_user"
              /\ task'[t].a \notin DOMAIN db)
             => UNCHANGED <<kv, connections, connected, listener, wsOpen, subs,
                            inbox, published, db, friends, requests>>
          /\ (/\ task[t].op = "delete_user"
              /\ task[t].b = None
              /\ task'[t] # task[t])
             => /\ task'[t] = IdleTask
                /\ UNCHANGED <<kv, connections, connected, listener, wsOpen, subs,
                               inbox, published, db, friends, requests>>]_vars

\* a delete_user call for an id that is no longer stored is about to return,
\* while a connection of that user is registered and listed
C39_Witness ==
    \E t \in Tasks : \E c \in Conns :
        /\ task[t].op = "delete_user"
        /\ task[t].pc = "absent"
        /\ user[c] # None
        /\ UidOf(c) = task[t].a
        /\ sessionId[c] \in DOMAIN connections
        /\ GetUserSessions(kv, now, task[t].a) # <<>>

====
